---------------------------- MODULE Spec2Model ----------------------------
(***************************************************************************)
(* A model of the mittensOS chess program: the position state             *)
(* (GameState: makeMove, undoMove, getValidMoves and the per-piece         *)
(* generators), the search (ChessAI) and the hand-over of a GameState      *)
(* copy to the search by the board widget.                                 *)
(*                                                                         *)
(* Squares are (row, col) with rows and columns 0..7 as in the source:     *)
(* row 0 is rank 8, column 0 is file a.  Pieces are the source's           *)
(* two-character strings, "--" for an empty square.                        *)
(***************************************************************************)
EXTENDS Integers, Sequences, FiniteSets, TLC

VARIABLES
    gs,          \* ChessBoard::gs, the live GameState object
    validMoves,  \* ChessBoard::validMoves, the last list getValidMoves returned
    stateCopy,   \* the GameState copy handed to the search (NoObject: none)
    ai,          \* the ChessAI object: its search position and nextMove
    op,          \* the operation completed last
    hist,        \* positions recorded before each applied, not yet undone move
    chessBoard   \* the ChessBoard widget: its flags, timers and queued signals

vars == <<gs, validMoves, stateCopy, ai, op, hist, chessBoard>>

----------------------------------------------------------------------------
(* Pieces *)

WhitePieces == {"wp", "wR", "wN", "wB", "wQ", "wK"}
BlackPieces == {"bp", "bR", "bN", "bB", "bQ", "bK"}
Pieces == WhitePieces \cup BlackPieces \cup {"--"}

\* piece[0]: the colour character
ColorOf ==
    [p \in Pieces |-> IF p \in WhitePieces THEN "w"
                      ELSE IF p \in BlackPieces THEN "b" ELSE "-"]

\* piece[1]: the kind character
KindOf ==
    [p \in Pieces |->
        IF p \in {"wp", "bp"} THEN "p"
        ELSE IF p \in {"wR", "bR"} THEN "R"
        ELSE IF p \in {"wN", "bN"} THEN "N"
        ELSE IF p \in {"wB", "bB"} THEN "B"
        ELSE IF p \in {"wQ", "bQ"} THEN "Q"
        ELSE IF p \in {"wK", "bK"} THEN "K" ELSE "-"]

OnBoard(row, col) == row >= 0 /\ row <= 7 /\ col >= 0 /\ col <= 7

Abs(x) == IF x < 0 THEN -x ELSE x

NoSquare == <<-1, -1>>

----------------------------------------------------------------------------
(* Move *)

\* Move::Move(): the default move, whose moveID 0 marks "no move"
DefaultMove ==
    [startRow |-> 0, startCol |-> 0, endRow |-> 0, endCol |-> 0,
     pieceMoved |-> "--", pieceCaptured |-> "--",
     isPawnPromotion |-> FALSE, isEnpassantMove |-> FALSE,
     isCastleMove |-> FALSE, isCapture |-> FALSE, moveID |-> 0]

\* Move::Move(startSq, endSq, board, isEnpassantMove, isCastleMove)
NewMove(startSq, endSq, board, isEnpassantMove, isCastleMove) ==
    LET pieceMoved == board[startSq[1]][startSq[2]]
        pieceCaptured ==
            IF isEnpassantMove
            THEN (IF pieceMoved = "wp" THEN "bp" ELSE "wp")
            ELSE board[endSq[1]][endSq[2]]
    IN  [startRow |-> startSq[1], startCol |-> startSq[2],
         endRow |-> endSq[1], endCol |-> endSq[2],
         pieceMoved |-> pieceMoved, pieceCaptured |-> pieceCaptured,
         isPawnPromotion |-> (pieceMoved = "wp" /\ endSq[1] = 0)
                             \/ (pieceMoved = "bp" /\ endSq[1] = 7),
         isEnpassantMove |-> isEnpassantMove,
         isCastleMove |-> isCastleMove,
         isCapture |-> pieceCaptured # "--",
         moveID |-> startSq[1] * 1000 + startSq[2] * 100
                    + endSq[1] * 10 + endSq[2]]

\* Move::operator==
MoveEq(m1, m2) == m1.moveID = m2.moveID

\* Move::rowsToRanks and Move::colsToFiles
rowsToRanks == <<"8", "7", "6", "5", "4", "3", "2", "1">>

colsToFiles == <<"a", "b", "c", "d", "e", "f", "g", "h">>

\* Move::getRankFile
getRankFile(row, col) == colsToFiles[col + 1] \o rowsToRanks[row + 1]

\* Move::getChessNotation
getChessNotation(m) ==
    IF m.isPawnPromotion THEN getRankFile(m.endRow, m.endCol) \o "Q"
    ELSE IF m.isCastleMove
    THEN (IF m.endCol = 1 THEN "O-O-O" ELSE "O-O")
    ELSE IF m.isEnpassantMove
    THEN KindOf[m.pieceMoved] \o "x" \o getRankFile(m.endRow, m.endCol)
             \o " e.p."
    ELSE IF m.pieceCaptured # "--"
    THEN (IF KindOf[m.pieceMoved] = "p"
          THEN colsToFiles[m.startCol + 1] \o "x"
                   \o getRankFile(m.endRow, m.endCol)
          ELSE KindOf[m.pieceMoved] \o "x"
                   \o getRankFile(m.endRow, m.endCol))
    ELSE IF KindOf[m.pieceMoved] = "p"
    THEN getRankFile(m.endRow, m.endCol)
    ELSE KindOf[m.pieceMoved] \o getRankFile(m.endRow, m.endCol)

\* Move::toString
toString(m) ==
    IF m.isCastleMove
    THEN (IF m.endCol = 6 THEN "O-O" ELSE "O-O-O")
    ELSE IF KindOf[m.pieceMoved] = "p"
    THEN (IF m.isCapture
          THEN colsToFiles[m.startCol + 1] \o "x"
                   \o getRankFile(m.endRow, m.endCol)
          ELSE IF m.isPawnPromotion
          THEN getRankFile(m.endRow, m.endCol) \o "Q"
          ELSE getRankFile(m.endRow, m.endCol))
    ELSE KindOf[m.pieceMoved] \o (IF m.isCapture THEN "x" ELSE "")
             \o getRankFile(m.endRow, m.endCol)

----------------------------------------------------------------------------
(* GameState: construction and copy *)

StartBoard ==
    [row \in 0..7 |->
        [col \in 0..7 |->
            CASE row = 0 -> <<"bR","bN","bB","bQ","bK","bB","bN","bR">>[col + 1]
              [] row = 1 -> "bp"
              [] row = 6 -> "wp"
              [] row = 7 -> <<"wR","wN","wB","wQ","wK","wB","wN","wR">>[col + 1]
              [] OTHER   -> "--"]]

CastleRights(wks, bks, wqs, bqs) ==
    [wks |-> wks, bks |-> bks, wqs |-> wqs, bqs |-> bqs]

\* GameState::GameState() for the object named self: the lambdas of
\* moveFunctions capture this, i.e. self.
NewGameState(self) ==
    [board |-> StartBoard,
     moveFunctions |-> self,
     whiteToMove |-> TRUE,
     moveLog |-> <<>>,
     whiteKingLocation |-> <<7, 4>>,
     blackKingLocation |-> <<0, 4>>,
     checkmate |-> FALSE,
     stalemate |-> FALSE,
     inCheck |-> FALSE,
     pins |-> <<>>,
     checks |-> <<>>,
     enPassantPossible |-> NoSquare,
     enPassantPossibleLog |-> <<NoSquare>>,
     castlingRights |-> CastleRights(TRUE, TRUE, TRUE, TRUE),
     castlingRightsLog |-> <<CastleRights(TRUE, TRUE, TRUE, TRUE)>>]

\* new GameState(*gs): the implicit member-wise copy constructor.  Every
\* member is copied as it is, moveFunctions with the this its lambdas hold.
CopyGameState(g) == g

\* no object (a null pointer)
NoObject == [moveFunctions |-> "none"]

----------------------------------------------------------------------------
(* GameState::makeMove and GameState::undoMove *)

\* a faulty updateCastleRights, which overlooks a captured rook
updateCastleRightsMoverOnly(cr, move) ==
    IF move.pieceMoved = "wK"
    THEN [cr EXCEPT !.wqs = FALSE, !.wks = FALSE]
    ELSE IF move.pieceMoved = "bK"
    THEN [cr EXCEPT !.bqs = FALSE, !.bks = FALSE]
    ELSE IF move.pieceMoved = "wR" /\ move.startRow = 7
    THEN (IF move.startCol = 0 THEN [cr EXCEPT !.wqs = FALSE]
          ELSE IF move.startCol = 7 THEN [cr EXCEPT !.wks = FALSE]
          ELSE cr)
    ELSE IF move.pieceMoved = "bR" /\ move.startRow = 0
    THEN (IF move.startCol = 0 THEN [cr EXCEPT !.bqs = FALSE]
          ELSE IF move.startCol = 7 THEN [cr EXCEPT !.bks = FALSE]
          ELSE cr)
    ELSE cr

\* GameState::updateCastleRights: the rights after move
updateCastleRights(cr, move) ==
    LET c1 == IF move.pieceCaptured = "wR"
              THEN (IF move.endCol = 0 THEN [cr EXCEPT !.wqs = FALSE]
                    ELSE IF move.endCol = 7 THEN [cr EXCEPT !.wks = FALSE]
                    ELSE cr)
              ELSE IF move.pieceCaptured = "bR"
              THEN (IF move.endCol = 0 THEN [cr EXCEPT !.bqs = FALSE]
                    ELSE IF move.endCol = 7 THEN [cr EXCEPT !.bks = FALSE]
                    ELSE cr)
              ELSE cr
    IN  IF move.pieceMoved = "wK"
        THEN [c1 EXCEPT !.wqs = FALSE, !.wks = FALSE]
        ELSE IF move.pieceMoved = "bK"
        THEN [c1 EXCEPT !.bqs = FALSE, !.bks = FALSE]
        ELSE IF move.pieceMoved = "wR"
        THEN (IF move.startRow = 7
              THEN (IF move.startCol = 0 THEN [c1 EXCEPT !.wqs = FALSE]
                    ELSE IF move.startCol = 7 THEN [c1 EXCEPT !.wks = FALSE]
                    ELSE c1)
              ELSE c1)
        ELSE IF move.pieceMoved = "bR"
        THEN (IF move.startRow = 0
              THEN (IF move.startCol = 0 THEN [c1 EXCEPT !.bqs = FALSE]
                    ELSE IF move.startCol = 7 THEN [c1 EXCEPT !.bks = FALSE]
                    ELSE c1)
              ELSE c1)
        ELSE c1

\* the board writes of makeMove, in the order of the source
makeMoveBoard(board, move) ==
    LET b1 == [board EXCEPT ![move.startRow][move.startCol] = "--"]
        b2 == [b1 EXCEPT ![move.endRow][move.endCol] = move.pieceMoved]
        b3 == IF move.isPawnPromotion
              THEN [b2 EXCEPT ![move.endRow][move.endCol] =
                        IF ColorOf[move.pieceMoved] = "w" THEN "wQ" ELSE "bQ"]
              ELSE b2
        b4 == IF move.isEnpassantMove
              THEN [b3 EXCEPT ![move.startRow][move.endCol] = "--"]
              ELSE b3
    IN  IF move.isCastleMove
        THEN IF move.endCol - move.startCol = 2
             THEN [b4 EXCEPT ![move.endRow][move.endCol - 1] =
                                  b4[move.endRow][move.endCol + 1],
                             ![move.endRow][move.endCol + 1] = "--"]
             ELSE [b4 EXCEPT ![move.endRow][move.endCol + 1] =
                                  b4[move.endRow][move.endCol - 2],
                             ![move.endRow][move.endCol - 2] = "--"]
        ELSE b4

\* GameState::makeMove
makeMove(g, move) ==
    LET ep == IF KindOf[move.pieceMoved] = "p"
                 /\ Abs(move.startRow - move.endRow) = 2
              THEN <<(move.startRow + move.endRow) \div 2, move.startCol>>
              ELSE NoSquare
        cr == updateCastleRights(g.castlingRights, move)
    IN  [g EXCEPT
            !.board = makeMoveBoard(g.board, move),
            !.moveLog = Append(g.moveLog, move),
            !.whiteToMove = ~g.whiteToMove,
            !.whiteKingLocation =
                IF move.pieceMoved = "wK"
                THEN <<move.endRow, move.endCol>> ELSE @,
            !.blackKingLocation =
                IF move.pieceMoved = "bK"
                THEN <<move.endRow, move.endCol>> ELSE @,
            !.enPassantPossible = ep,
            !.enPassantPossibleLog = Append(@, ep),
            !.castlingRights = cr,
            !.castlingRightsLog = Append(@, cr)]

\* QVector::pop_back
PopBack(s) == SubSeq(s, 1, Len(s) - 1)

\* QVector::back
Back(s) == s[Len(s)]

\* a faulty undo of the board writes, which leaves the end square empty
\* instead of putting the captured piece back
undoMoveBoardDropsCapture(board, move) ==
    [board EXCEPT ![move.startRow][move.startCol] = move.pieceMoved,
                  ![move.endRow][move.endCol] = "--"]

\* the board writes of undoMove, in the order of the source
undoMoveBoard(board, move) ==
    LET b1 == [board EXCEPT ![move.startRow][move.startCol] = move.pieceMoved]
        b2 == [b1 EXCEPT ![move.endRow][move.endCol] = move.pieceCaptured]
        b3 == IF move.isEnpassantMove
              THEN [b2 EXCEPT ![move.endRow][move.endCol] = "--",
                              ![move.startRow][move.endCol] = move.pieceCaptured]
              ELSE b2
    IN  IF move.isCastleMove
        THEN IF move.endCol - move.startCol = 2
             THEN [b3 EXCEPT ![move.endRow][move.endCol + 1] =
                                  b3[move.endRow][move.endCol - 1],
                             ![move.endRow][move.endCol - 1] = "--"]
             ELSE [b3 EXCEPT ![move.endRow][move.endCol - 2] =
                                  b3[move.endRow][move.endCol + 1],
                             ![move.endRow][move.endCol + 1] = "--"]
        ELSE b3

\* a faulty undoMove, which does not pop castlingRightsLog
undoMoveKeepsRightsLog(g) ==
    IF g.moveLog = <<>> THEN g
    ELSE
    LET move == Back(g.moveLog)
        epLog == PopBack(g.enPassantPossibleLog)
    IN  [g EXCEPT
            !.moveLog = PopBack(g.moveLog),
            !.board = undoMoveBoard(g.board, move),
            !.whiteToMove = ~g.whiteToMove,
            !.whiteKingLocation =
                IF move.pieceMoved = "wK"
                THEN <<move.startRow, move.startCol>> ELSE @,
            !.blackKingLocation =
                IF move.pieceMoved = "bK"
                THEN <<move.startRow, move.startCol>> ELSE @,
            !.enPassantPossibleLog = epLog,
            !.enPassantPossible = Back(epLog),
            !.castlingRights = Back(PopBack(g.castlingRightsLog)),
            !.checkmate = FALSE,
            !.stalemate = FALSE]

\* a faulty undoMove, which does not reload enPassantPossible from its log
undoMoveKeepsEnPassant(g) ==
    IF g.moveLog = <<>> THEN g
    ELSE
    LET move == Back(g.moveLog)
        epLog == PopBack(g.enPassantPossibleLog)
        crLog == PopBack(g.castlingRightsLog)
    IN  [g EXCEPT
            !.moveLog = PopBack(g.moveLog),
            !.board = undoMoveBoard(g.board, move),
            !.whiteToMove = ~g.whiteToMove,
            !.whiteKingLocation =
                IF move.pieceMoved = "wK"
                THEN <<move.startRow, move.startCol>> ELSE @,
            !.blackKingLocation =
                IF move.pieceMoved = "bK"
                THEN <<move.startRow, move.startCol>> ELSE @,
            !.enPassantPossibleLog = epLog,
            !.castlingRightsLog = crLog,
            !.castlingRights = Back(crLog),
            !.checkmate = FALSE,
            !.stalemate = FALSE]

\* a faulty undoMove, which hands the turn over when moveLog is empty
undoMoveOnEmptyFlipsTurn(g) ==
    IF g.moveLog = <<>> THEN [g EXCEPT !.whiteToMove = ~@]
    ELSE
    LET move == Back(g.moveLog)
        epLog == PopBack(g.enPassantPossibleLog)
        crLog == PopBack(g.castlingRightsLog)
    IN  [g EXCEPT
            !.moveLog = PopBack(g.moveLog),
            !.board = undoMoveBoard(g.board, move),
            !.whiteToMove = ~g.whiteToMove,
            !.whiteKingLocation =
                IF move.pieceMoved = "wK"
                THEN <<move.startRow, move.startCol>> ELSE @,
            !.blackKingLocation =
                IF move.pieceMoved = "bK"
                THEN <<move.startRow, move.startCol>> ELSE @,
            !.enPassantPossibleLog = epLog,
            !.enPassantPossible = Back(epLog),
            !.castlingRightsLog = crLog,
            !.castlingRights = Back(crLog),
            !.checkmate = FALSE,
            !.stalemate = FALSE]

\* a faulty undoMove, which does not reload castlingRights from its log
undoMoveKeepsRights(g) ==
    IF g.moveLog = <<>> THEN g
    ELSE
    LET move == Back(g.moveLog)
        epLog == PopBack(g.enPassantPossibleLog)
        crLog == PopBack(g.castlingRightsLog)
    IN  [g EXCEPT
            !.moveLog = PopBack(g.moveLog),
            !.board = undoMoveBoard(g.board, move),
            !.whiteToMove = ~g.whiteToMove,
            !.whiteKingLocation =
                IF move.pieceMoved = "wK"
                THEN <<move.startRow, move.startCol>> ELSE @,
            !.blackKingLocation =
                IF move.pieceMoved = "bK"
                THEN <<move.startRow, move.startCol>> ELSE @,
            !.enPassantPossibleLog = epLog,
            !.enPassantPossible = Back(epLog),
            !.castlingRightsLog = crLog,
            !.checkmate = FALSE,
            !.stalemate = FALSE]

\* GameState::undoMove
undoMove(g) ==
    IF g.moveLog = <<>> THEN g
    ELSE
    LET move == Back(g.moveLog)
        epLog == PopBack(g.enPassantPossibleLog)
        crLog == PopBack(g.castlingRightsLog)
    IN  [g EXCEPT
            !.moveLog = PopBack(g.moveLog),
            !.board = undoMoveBoard(g.board, move),
            !.whiteToMove = ~g.whiteToMove,
            !.whiteKingLocation =
                IF move.pieceMoved = "wK"
                THEN <<move.startRow, move.startCol>> ELSE @,
            !.blackKingLocation =
                IF move.pieceMoved = "bK"
                THEN <<move.startRow, move.startCol>> ELSE @,
            !.enPassantPossibleLog = epLog,
            !.enPassantPossible = Back(epLog),
            !.castlingRightsLog = crLog,
            !.castlingRights = Back(crLog),
            !.checkmate = FALSE,
            !.stalemate = FALSE]

----------------------------------------------------------------------------
(* GameState::checkForPinsAndChecks *)

PinInfo(row, col, dirRow, dirCol) ==
    [row |-> row, col |-> col, dirRow |-> dirRow, dirCol |-> dirCol]

\* the eight ray directions, rook directions first (j = 0..3), then the
\* bishop directions (j = 4..7)
directions ==
    << <<-1, 0>>, <<0, -1>>, <<1, 0>>, <<0, 1>>,
       <<-1, -1>>, <<-1, 1>>, <<1, -1>>, <<1, 1>> >>

\* faulty knight jumps, the first of them diagonal
knightMovesDiagonal ==
    << <<-2, -2>>, <<-2, 1>>, <<-1, -2>>, <<-1, 2>>,
       <<1, -2>>, <<1, 2>>, <<2, -1>>, <<2, 1>> >>

knightMoves ==
    << <<-2, -1>>, <<-2, 1>>, <<-1, -2>>, <<-1, 2>>,
       <<1, -2>>, <<1, 2>>, <<2, -1>>, <<2, 1>> >>

\* whether an enemy piece of kind pieceType, met at distance i on ray j,
\* attacks the king
canCheck(j, i, pieceType, enemyColor) ==
    IF j <= 3 /\ pieceType = "R" THEN TRUE
    ELSE IF j >= 4 /\ pieceType = "B" THEN TRUE
    ELSE IF i = 1 /\ pieceType = "p"
    THEN (enemyColor = "w" /\ j >= 6 /\ j <= 7)
         \/ (enemyColor = "b" /\ j >= 4 /\ j <= 5)
    ELSE IF pieceType = "Q" THEN TRUE
    ELSE IF i = 1 /\ pieceType = "K" THEN TRUE
    ELSE FALSE

\* The inner loop over i of one ray j from the king's square: what the ray
\* adds, a check, a pin or nothing.  possiblePin.row = -1: no own piece met.
RECURSIVE scanRay(_, _, _, _, _, _, _)
scanRay(board, teamColor, startRow, startCol, j, i, possiblePin) ==
    LET d == directions[j + 1]
        endRow == startRow + d[1] * i
        endCol == startCol + d[2] * i
        enemyColor == IF teamColor = "w" THEN "b" ELSE "w"
    IN  IF i >= 8 \/ ~OnBoard(endRow, endCol)
        THEN [kind |-> "none"]
        ELSE
        LET endPiece == board[endRow][endCol] IN
        IF ColorOf[endPiece] = teamColor /\ KindOf[endPiece] # "K"
        THEN IF possiblePin.row = -1
             THEN scanRay(board, teamColor, startRow, startCol, j, i + 1,
                          PinInfo(endRow, endCol, d[1], d[2]))
             ELSE [kind |-> "none"]
        ELSE IF ColorOf[endPiece] = enemyColor
        THEN IF canCheck(j, i, KindOf[endPiece], enemyColor)
             THEN IF possiblePin.row = -1
                  THEN [kind |-> "check",
                        info |-> PinInfo(endRow, endCol, d[1], d[2])]
                  ELSE [kind |-> "pin", info |-> possiblePin]
             ELSE [kind |-> "none"]
        ELSE scanRay(board, teamColor, startRow, startCol, j, i + 1,
                     possiblePin)

\* the lists pins and checks after the ray that yields r
addRay(lists, r) ==
    [pins |-> IF r.kind = "pin" THEN Append(lists.pins, r.info)
              ELSE lists.pins,
     checks |-> IF r.kind = "check" THEN Append(lists.checks, r.info)
                ELSE lists.checks]

\* the outer loop over the rays j..7, extending the lists pins and checks
RECURSIVE scanRays(_, _, _, _, _, _)
scanRays(board, teamColor, startRow, startCol, j, lists) ==
    IF j > 7 THEN lists
    ELSE scanRays(board, teamColor, startRow, startCol, j + 1,
                  addRay(lists,
                         scanRay(board, teamColor, startRow, startCol, j, 1,
                                 PinInfo(-1, -1, directions[j + 1][1],
                                         directions[j + 1][2]))))

\* the knight offsets k..8 from the king's square that hold an enemy knight
RECURSIVE knightChecks(_, _, _, _, _)
knightChecks(board, enemyColor, startRow, startCol, k) ==
    IF k > 8 THEN <<>>
    ELSE
    LET move == knightMoves[k]
        endRow == startRow + move[1]
        endCol == startCol + move[2]
        rest == knightChecks(board, enemyColor, startRow, startCol, k + 1)
    IN  IF OnBoard(endRow, endCol)
           /\ ColorOf[board[endRow][endCol]] = enemyColor
           /\ KindOf[board[endRow][endCol]] = "N"
        THEN <<PinInfo(endRow, endCol, move[1], move[2])>> \o rest
        ELSE rest

\* struct PinsAndChecksInfo as checkForPinsAndChecks returns it: the lists
\* of the rays, then the checks by knights
PinsAndChecksInfo(rays, knights) ==
    [inCheck |-> rays.checks \o knights # <<>>,
     pins |-> rays.pins,
     checks |-> rays.checks \o knights]

\* GameState::checkForPinsAndChecks on the object g
checkForPinsAndChecks(g) ==
    LET teamColor == IF g.whiteToMove THEN "w" ELSE "b"
        enemyColor == IF g.whiteToMove THEN "b" ELSE "w"
        king == IF g.whiteToMove THEN g.whiteKingLocation
                ELSE g.blackKingLocation
    IN  PinsAndChecksInfo(
            scanRays(g.board, teamColor, king[1], king[2], 0,
                     [pins |-> <<>>, checks |-> <<>>]),
            knightChecks(g.board, enemyColor, king[1], king[2], 1))

----------------------------------------------------------------------------
(* The per-piece generators.  Each runs on one GameState object t (its     *)
(* this) for the square (row, col) and yields the moves it appends and the *)
(* object t as it leaves it: the generators erase the pin they use from    *)
(* t.pins, and getKingMoves writes t's king location.                      *)

\* QVector::removeAt, for the 1-based index i
RemoveAt(s, i) == SubSeq(s, 1, i - 1) \o SubSeq(s, i + 1, Len(s))

\* the moves pushed by the turns of a loop, in the order of the turns
RECURSIVE Concat(_)
Concat(lists) ==
    IF lists = <<>> THEN <<>> ELSE Head(lists) \o Concat(Tail(lists))

\* the loop "for (i = pins.size() - 1; i >= 0; i--)": the index (1-based) of
\* the last entry of pins for the square, 0 if there is none
findPin(pins, row, col) ==
    LET hits == {i \in 1..Len(pins) : pins[i].row = row /\ pins[i].col = col}
    IN  IF hits = {} THEN 0 ELSE CHOOSE i \in hits : \A k \in hits : k <= i

\* a faulty horizontal-pin test, which keeps every en-passant capture
enPassantKeptAlways(board, row, enemyColor, between, outside) == TRUE

\* The horizontal-pin test of an en-passant capture in getPawnMoves.  The king
\* stands on the pawn's row; between is the set of columns scanned between
\* king and pawns, outside the sequence of columns scanned beyond them.
\* TRUE when the capture is kept: !attackingPiece || blockingPiece.
enPassantKept(board, row, enemyColor, between, outside) ==
    LET blockedBetween == \E i \in between : board[row][i] # "--"
        occupied == {k \in 1..Len(outside) : board[row][outside[k]] # "--"}
        first == CHOOSE k \in occupied : \A n \in occupied : k <= n
        firstPiece == board[row][outside[first]]
        attackingPiece ==
            occupied # {}
            /\ ColorOf[firstPiece] = enemyColor
            /\ KindOf[firstPiece] \in {"R", "Q"}
        blockingPiece ==
            blockedBetween \/ (occupied # {} /\ ~attackingPiece)
    IN  ~attackingPiece \/ blockingPiece

\* the columns lo, lo+1, .., hi as a sequence (empty if lo > hi)
Up(lo, hi) == [k \in 1..(IF hi >= lo THEN hi - lo + 1 ELSE 0) |-> lo + k - 1]

\* the columns hi, hi-1, .., lo as a sequence (empty if lo > hi)
Down(hi, lo) == [k \in 1..(IF hi >= lo THEN hi - lo + 1 ELSE 0) |-> hi - k + 1]

\* the en-passant capture of getPawnMoves towards column col + side
\* (side = -1: to the left, side = 1: to the right), if it is generated
enPassantCapture(t, row, col, moveAmount, side, enemyColor, kingPos) ==
    IF t.enPassantPossible[1] = row + moveAmount
       /\ t.enPassantPossible[2] = col + side
    THEN
        LET lowCol == IF side = -1 THEN col - 1 ELSE col
            highCol == IF side = -1 THEN col ELSE col + 1
            kept ==
                kingPos[1] # row
                \/ enPassantKept(t.board, row, enemyColor,
                       IF kingPos[2] < col
                       THEN (kingPos[2] + 1)..(lowCol - 1)
                       ELSE (highCol + 1)..(kingPos[2] - 1),
                       IF kingPos[2] < col
                       THEN Up(highCol + 1, 7)
                       ELSE Down(lowCol - 1, 0))
        IN  IF kept
            THEN <<NewMove(<<row, col>>, <<row + moveAmount, col + side>>,
                           t.board, TRUE, FALSE)>>
            ELSE <<>>
    ELSE <<>>

\* GameState::getPawnMoves
getPawnMoves(t, row, col) ==
    LET p == findPin(t.pins, row, col)
        piecePinned == p # 0
        pinDirection == IF piecePinned
                        THEN <<t.pins[p].dirRow, t.pins[p].dirCol>>
                        ELSE <<0, 0>>
        moveAmount == IF t.whiteToMove THEN -1 ELSE 1
        startRow == IF t.whiteToMove THEN 6 ELSE 1
        enemyColor == IF t.whiteToMove THEN "b" ELSE "w"
        kingPos == IF t.whiteToMove THEN t.whiteKingLocation
                   ELSE t.blackKingLocation
        from == <<row, col>>
        forward ==
            IF t.board[row + moveAmount][col] = "--"
               /\ (~piecePinned \/ pinDirection = <<moveAmount, 0>>)
            THEN <<NewMove(from, <<row + moveAmount, col>>, t.board,
                           FALSE, FALSE)>>
                 \o (IF row = startRow
                        /\ t.board[row + 2 * moveAmount][col] = "--"
                     THEN <<NewMove(from, <<row + 2 * moveAmount, col>>,
                                    t.board, FALSE, FALSE)>>
                     ELSE <<>>)
            ELSE <<>>
        capture(side) ==
            IF OnBoard(row, col + side)
               /\ (~piecePinned \/ pinDirection = <<moveAmount, side>>)
            THEN (IF ColorOf[t.board[row + moveAmount][col + side]]
                     = enemyColor
                  THEN <<NewMove(from, <<row + moveAmount, col + side>>,
                                 t.board, FALSE, FALSE)>>
                  ELSE <<>>)
                 \o enPassantCapture(t, row, col, moveAmount, side,
                                     enemyColor, kingPos)
            ELSE <<>>
    IN  [moves |-> IF row + moveAmount >= 0 /\ row + moveAmount <= 7
                   THEN forward
                        \o Concat([k \in 1..2 |-> capture(2 * k - 3)])
                   ELSE <<>>,
         t |-> IF piecePinned THEN [t EXCEPT !.pins = RemoveAt(@, p)] ELSE t]

\* the inner loop of getRookMoves and getBishopMoves: the moves along
\* direction d from distance i on
RECURSIVE slide(_, _, _, _, _, _, _, _)
slide(board, row, col, d, i, enemyColor, piecePinned, pinDirection) ==
    LET endRow == row + d[1] * i
        endCol == col + d[2] * i
    IN  IF i >= 8 \/ ~OnBoard(endRow, endCol) THEN <<>>
        ELSE IF ~piecePinned \/ pinDirection = d
                \/ pinDirection = <<-d[1], -d[2]>>
        THEN LET endPiece == board[endRow][endCol] IN
             IF endPiece = "--"
             THEN <<NewMove(<<row, col>>, <<endRow, endCol>>, board,
                            FALSE, FALSE)>>
                  \o slide(board, row, col, d, i + 1, enemyColor,
                           piecePinned, pinDirection)
             ELSE IF ColorOf[endPiece] = enemyColor
             THEN <<NewMove(<<row, col>>, <<endRow, endCol>>, board,
                            FALSE, FALSE)>>
             ELSE <<>>
        ELSE <<>>

\* the moves of a sliding piece along the four directions dirs
slideAll(t, row, col, dirs, piecePinned, pinDirection) ==
    Concat([k \in 1..4 |->
               slide(t.board, row, col, dirs[k], 1,
                     IF t.whiteToMove THEN "b" ELSE "w",
                     piecePinned, pinDirection)])

\* GameState::getRookMoves: the pin stays in t.pins when the piece on the
\* square is a queen
getRookMoves(t, row, col) ==
    LET p == findPin(t.pins, row, col)
        piecePinned == p # 0
        pinDirection == IF piecePinned
                        THEN <<t.pins[p].dirRow, t.pins[p].dirCol>>
                        ELSE <<0, 0>>
    IN  [moves |-> slideAll(t, row, col,
                            << <<-1, 0>>, <<0, -1>>, <<1, 0>>, <<0, 1>> >>,
                            piecePinned, pinDirection),
         t |-> IF piecePinned /\ KindOf[t.board[row][col]] # "Q"
               THEN [t EXCEPT !.pins = RemoveAt(@, p)] ELSE t]

\* GameState::getBishopMoves: the pin is erased whatever the piece is
getBishopMoves(t, row, col) ==
    LET p == findPin(t.pins, row, col)
        piecePinned == p # 0
        pinDirection == IF piecePinned
                        THEN <<t.pins[p].dirRow, t.pins[p].dirCol>>
                        ELSE <<0, 0>>
    IN  [moves |-> slideAll(t, row, col,
                            << <<-1, -1>>, <<-1, 1>>, <<1, -1>>, <<1, 1>> >>,
                            piecePinned, pinDirection),
         t |-> IF piecePinned THEN [t EXCEPT !.pins = RemoveAt(@, p)] ELSE t]

\* GameState::getKnightMoves
getKnightMoves(t, row, col) ==
    LET p == findPin(t.pins, row, col)
        piecePinned == p # 0
        teamColor == IF t.whiteToMove THEN "w" ELSE "b"
        jump(k) ==
            LET endRow == row + knightMoves[k][1]
                endCol == col + knightMoves[k][2]
            IN  IF OnBoard(endRow, endCol) /\ ~piecePinned
                   /\ ColorOf[t.board[endRow][endCol]] # teamColor
                THEN <<NewMove(<<row, col>>, <<endRow, endCol>>, t.board,
                               FALSE, FALSE)>>
                ELSE <<>>
    IN  [moves |-> Concat([k \in 1..8 |-> jump(k)]),
         t |-> IF piecePinned THEN [t EXCEPT !.pins = RemoveAt(@, p)] ELSE t]

\* what a generator yields, after the moves that were pushed before it
after(moves, r) == [moves |-> moves \o r.moves, t |-> r.t]

\* getRookMoves on the object as the generator that yielded r left it
rookAfter(r, row, col) == after(r.moves, getRookMoves(r.t, row, col))

\* GameState::getQueenMoves: getBishopMoves, then getRookMoves on the object
\* as getBishopMoves left it
getQueenMoves(t, row, col) ==
    rookAfter(getBishopMoves(t, row, col), row, col)

kingMoves ==
    << <<-1, -1>>, <<-1, 0>>, <<-1, 1>>, <<0, -1>>,
       <<0, 1>>, <<1, -1>>, <<1, 0>>, <<1, 1>> >>

\* t with the king location of its side to move set to square
withKingAt(t, square) ==
    IF t.whiteToMove THEN [t EXCEPT !.whiteKingLocation = square]
    ELSE [t EXCEPT !.blackKingLocation = square]

\* GameState::getKingMoves: each candidate square is tried by writing it to
\* the king location of the side to move and calling checkForPinsAndChecks;
\* the location is then set to (row, col)
getKingMoves(t, row, col) ==
    LET teamColor == IF t.whiteToMove THEN "w" ELSE "b"
        tried(k) ==
            LET endRow == row + kingMoves[k][1]
                endCol == col + kingMoves[k][2]
            IN  OnBoard(endRow, endCol)
                /\ ColorOf[t.board[endRow][endCol]] # teamColor
        step(k) ==
            LET endRow == row + kingMoves[k][1]
                endCol == col + kingMoves[k][2]
            IN  IF tried(k)
                   /\ ~checkForPinsAndChecks(
                           withKingAt(t, <<endRow, endCol>>)).inCheck
                THEN <<NewMove(<<row, col>>, <<endRow, endCol>>, t.board,
                               FALSE, FALSE)>>
                ELSE <<>>
    IN  [moves |-> Concat([k \in 1..8 |-> step(k)]),
         t |-> IF \E k \in 1..8 : tried(k)
               THEN withKingAt(t, <<row, col>>) ELSE t]

\* the callable moveFunctions[piece], run on the object t it captured
moveFunction(piece, t, row, col) ==
    CASE piece = "p" -> getPawnMoves(t, row, col)
      [] piece = "R" -> getRookMoves(t, row, col)
      [] piece = "N" -> getKnightMoves(t, row, col)
      [] piece = "B" -> getBishopMoves(t, row, col)
      [] piece = "Q" -> getQueenMoves(t, row, col)
      [] piece = "K" -> getKingMoves(t, row, col)

----------------------------------------------------------------------------
(* The operations that dispatch through moveFunctions.  They run on the    *)
(* object named o of a heap h = [gs |-> .., stateCopy |-> ..]; the         *)
(* generators they reach through moveFunctions run on the object that      *)
(* h[o].moveFunctions names.  Each yields the heap as it leaves it.        *)

\* the squares getAllPossibleMoves finds a piece of the side to move on, in
\* the order of its two loops (the generators do not write the board)
turnSquares(g) ==
    SelectSeq([k \in 1..64 |-> <<(k - 1) \div 8, (k - 1) % 8>>],
              LAMBDA sq :
                  LET turn == ColorOf[g.board[sq[1]][sq[2]]]
                  IN  (turn = "w" /\ g.whiteToMove)
                          \/ (turn = "b" /\ ~g.whiteToMove))

\* one turn of the loops of getAllPossibleMoves: the generator of the
\* piece on (row, col) of object o, run on the object this that
\* moveFunctions of o captured
RunOn(loop, this, r) ==
    [h |-> [loop.h EXCEPT ![this] = r.t], moves |-> loop.moves \o r.moves]

generate(loop, o, row, col) ==
    RunOn(loop, loop.h[o].moveFunctions,
          moveFunction(KindOf[loop.h[o].board[row][col]],
                       loop.h[loop.h[o].moveFunctions], row, col))

\* the loops of getAllPossibleMoves from the i-th of these squares on
RECURSIVE allMovesFrom(_, _, _, _)
allMovesFrom(loop, o, squares, i) ==
    IF i > Len(squares) THEN loop
    ELSE allMovesFrom(generate(loop, o, squares[i][1], squares[i][2]),
                      o, squares, i + 1)

\* GameState::getAllPossibleMoves
getAllPossibleMoves(h, o) ==
    allMovesFrom([h |-> h, moves |-> <<>>], o, turnSquares(h[o]), 1)

\* squareUnderAttack after its call of getAllPossibleMoves yielded r
attackedBy(r, o, row, col) ==
    [h |-> [r.h EXCEPT ![o].whiteToMove = ~@],
     attacked |-> \E i \in 1..Len(r.moves) :
                     r.moves[i].endRow = row /\ r.moves[i].endCol = col]

\* GameState::squareUnderAttack
squareUnderAttack(h, o, row, col) ==
    attackedBy(getAllPossibleMoves([h EXCEPT ![o].whiteToMove = ~@], o),
               o, row, col)

\* GameState::getKingsideCastleMoves up to its first squareUnderAttack:
\* whether the squares between king and rook are empty
getKingsideCastleMoves(g, row, col) ==
    /\ col + 2 <= 7
    /\ g.board[row][col + 1] = "--"
    /\ g.board[row][col + 2] = "--"

\* GameState::getQueensideCastleMoves up to its first squareUnderAttack
getQueensideCastleMoves(g, row, col) ==
    /\ col - 2 >= 0
    /\ col - 3 >= 0
    /\ g.board[row][col - 1] = "--"
    /\ g.board[row][col - 2] = "--"
    /\ g.board[row][col - 3] = "--"

\* The calls of squareUnderAttack that getCastleMoves and the two functions
\* it calls make, in their order; call n asks for column col + castleCols[n].
\* 1: the king's square; 2, 3: kingside; 4, 5: queenside.
castleCols == <<0, 1, 2, -1, -2>>

\* whether the side to move of g has the right to castle kingside
kingsideRight(g) ==
    (g.whiteToMove /\ g.castlingRights.wks)
        \/ (~g.whiteToMove /\ g.castlingRights.bks)

\* whether the side to move of g has the right to castle queenside
queensideRight(g) ==
    (g.whiteToMove /\ g.castlingRights.wqs)
        \/ (~g.whiteToMove /\ g.castlingRights.bqs)

\* the first call from call n on that is made (6: none is): the kingside
\* calls are made with the right and the empty squares, and so the
\* queenside calls
castleCall(g, row, col, n) ==
    IF n <= 3 /\ kingsideRight(g) /\ getKingsideCastleMoves(g, row, col)
    THEN n
    ELSE IF queensideRight(g) /\ getQueensideCastleMoves(g, row, col)
    THEN (IF n <= 4 THEN 4 ELSE n)
    ELSE 6

\* a faulty getCastleMoves, which goes on when the king's square is attacked
castleAfterIgnoresCheck(loop, a, o, row, col) ==
    [h |-> a.h,
     moves |-> IF ~a.attacked /\ loop.n \in {3, 5}
               THEN Append(loop.moves,
                           NewMove(<<row, col>>,
                                   <<row, col + castleCols[loop.n]>>,
                                   a.h[o].board, FALSE, TRUE))
               ELSE loop.moves,
     n |-> IF a.attacked
           THEN (IF loop.n = 1 THEN castleCall(a.h[o], row, col, 2)
                 ELSE IF loop.n <= 3
                 THEN castleCall(a.h[o], row, col, 4)
                 ELSE 6)
           ELSE (IF loop.n = 5 THEN 6
                 ELSE castleCall(a.h[o], row, col, loop.n + 1))]

\* after call n of squareUnderAttack yielded a: the castle move is pushed
\* after the second call of a side, and the call made next is found
castleAfter(loop, a, o, row, col) ==
    [h |-> a.h,
     moves |-> IF ~a.attacked /\ loop.n \in {3, 5}
               THEN Append(loop.moves,
                           NewMove(<<row, col>>,
                                   <<row, col + castleCols[loop.n]>>,
                                   a.h[o].board, FALSE, TRUE))
               ELSE loop.moves,
     n |-> IF a.attacked
           THEN (IF loop.n = 1 THEN 6
                 ELSE IF loop.n <= 3
                 THEN castleCall(a.h[o], row, col, 4)
                 ELSE 6)
           ELSE (IF loop.n = 5 THEN 6
                 ELSE castleCall(a.h[o], row, col, loop.n + 1))]

\* the calls of squareUnderAttack from call loop.n on
RECURSIVE castleCalls(_, _, _, _)
castleCalls(loop, o, row, col) ==
    IF loop.n > 5 THEN [h |-> loop.h, moves |-> loop.moves]
    ELSE castleCalls(
             castleAfter(loop,
                         squareUnderAttack(loop.h, o, row,
                                           col + castleCols[loop.n]),
                         o, row, col),
             o, row, col)

\* GameState::getCastleMoves
getCastleMoves(h, o, row, col) ==
    castleCalls([h |-> h, moves |-> <<>>, n |-> 1], o, row, col)

\* the squares that resolve the single check: the checker's square if it is a
\* knight, else the ray from the king up to and including the checker
validSquares(g, check, kingRow, kingCol) ==
    IF KindOf[g.board[check.row][check.col]] = "N"
    THEN {<<check.row, check.col>>}
    ELSE LET at(i) == <<kingRow + check.dirRow * i,
                        kingCol + check.dirCol * i>>
             reach == {i \in 1..7 : at(i) = <<check.row, check.col>>}
             last == IF reach = {} THEN 7
                     ELSE CHOOSE i \in reach : \A k \in reach : i <= k
         IN  {at(i) : i \in 1..last}

\* a faulty removal loop, which removes nothing
resolvingKeepsAll(moves, squares) == moves

\* the moves kept by the removal loop of the single-check branch
resolving(moves, squares) ==
    SelectSeq(moves,
              LAMBDA m : KindOf[m.pieceMoved] = "K"
                         \/ <<m.endRow, m.endCol>> \in squares)

kingLocation(g) ==
    IF g.whiteToMove THEN g.whiteKingLocation ELSE g.blackKingLocation

\* getValidMoves after checkForPinsAndChecks yielded pinCheckInfo: inCheck,
\* pins and checks are stored in the object o
withPinsAndChecks(h, o, pinCheckInfo) ==
    [h EXCEPT ![o].inCheck = pinCheckInfo.inCheck,
              ![o].pins = pinCheckInfo.pins,
              ![o].checks = pinCheckInfo.checks]

\* getValidMoves after getAllPossibleMoves yielded all: in the single-check
\* branch the moves that do not resolve the check are removed; king is the
\* king location read before the moves were generated
resolved(all, o, king) ==
    IF all.h[o].inCheck
    THEN [h |-> all.h,
          moves |-> resolving(all.moves,
                        validSquares(all.h[o], all.h[o].checks[1],
                                     king[1], king[2]))]
    ELSE all

\* the double-check branch of getValidMoves after getKingMoves yielded r
kingOnly(h, o, r) == [h |-> [h EXCEPT ![o] = r.t], moves |-> r.moves]

\* a faulty getValidMoves, which treats a double check like a single one
generatedAsSingleCheck(h, o) ==
    resolved(getAllPossibleMoves(h, o), o, kingLocation(h[o]))

\* the moves getValidMoves generates before the castle moves, on the heap
\* h with inCheck, pins and checks stored
generated(h, o) ==
    IF h[o].inCheck /\ Len(h[o].checks) # 1
    THEN kingOnly(h, o, getKingMoves(h[o], kingLocation(h[o])[1],
                                     kingLocation(h[o])[2]))
    ELSE resolved(getAllPossibleMoves(h, o), o, kingLocation(h[o]))

\* a faulty end of getValidMoves, which never sets stalemate
finishedNeverStalemate(moves, castle, o, tempCastleRights) ==
    [h |-> [castle.h EXCEPT
               ![o].checkmate =
                   (moves \o castle.moves = <<>>) /\ castle.h[o].inCheck,
               ![o].stalemate = FALSE,
               ![o].castlingRights = tempCastleRights],
     moves |-> moves \o castle.moves]

\* a faulty end of getValidMoves, which never sets checkmate
finishedNeverCheckmate(moves, castle, o, tempCastleRights) ==
    [h |-> [castle.h EXCEPT
               ![o].checkmate = FALSE,
               ![o].stalemate =
                   (moves \o castle.moves = <<>>) /\ ~castle.h[o].inCheck,
               ![o].castlingRights = tempCastleRights],
     moves |-> moves \o castle.moves]

\* a faulty end of getValidMoves, which leaves all four castling rights set
finishedGrantsRights(moves, castle, o, tempCastleRights) ==
    [h |-> [castle.h EXCEPT
               ![o].checkmate =
                   (moves \o castle.moves = <<>>) /\ castle.h[o].inCheck,
               ![o].stalemate =
                   (moves \o castle.moves = <<>>) /\ ~castle.h[o].inCheck,
               ![o].castlingRights =
                   [n \in DOMAIN tempCastleRights |-> TRUE]],
     moves |-> moves \o castle.moves]

\* getValidMoves after getCastleMoves yielded castle: the moves, checkmate,
\* stalemate, and the castling rights set back
finished(moves, castle, o, tempCastleRights) ==
    [h |-> [castle.h EXCEPT
               ![o].checkmate =
                   (moves \o castle.moves = <<>>) /\ castle.h[o].inCheck,
               ![o].stalemate =
                   (moves \o castle.moves = <<>>) /\ ~castle.h[o].inCheck,
               ![o].castlingRights = tempCastleRights],
     moves |-> moves \o castle.moves]

\* getValidMoves from its call of getCastleMoves on
withCastleMoves(gen, o, tempCastleRights) ==
    finished(gen.moves,
             getCastleMoves(gen.h, o, kingLocation(gen.h[o])[1],
                            kingLocation(gen.h[o])[2]),
             o, tempCastleRights)

\* GameState::getValidMoves on the object named o
getValidMoves(h, o) ==
    withCastleMoves(
        generated(withPinsAndChecks(h, o, checkForPinsAndChecks(h[o])), o),
        o, h[o].castlingRights)

----------------------------------------------------------------------------
(* The caller of the engine: it asks for the legal moves, applies one of   *)
(* them, or undoes the last move.                                          *)

\* the heap of the two GameState objects
Heap == [gs |-> gs, stateCopy |-> stateCopy]

\* the fields that make up a position
Position(g) ==
    [board |-> g.board,
     whiteToMove |-> g.whiteToMove,
     whiteKingLocation |-> g.whiteKingLocation,
     blackKingLocation |-> g.blackKingLocation,
     castlingRights |-> g.castlingRights,
     enPassantPossible |-> g.enPassantPossible]

\* Free plies explored beyond the end of a line of Book.
MaxPly == 1

\* 1. f3 e5 2. g4 Qh4, which mates White
FoolsMate == <<6555, 1434, 6646, 347>>

\* 1. e3 a5 2. Qh5 Ra6 3. Qxa5 h5 4. h4 Rah6 5. Qxc7 f6 6. Qxd7+ Kf7
\* 7. Qxb7 Qd3 8. Qxb8 Qh7 9. Qxc8 Kg6 10. Qe6, which leaves Black, not in
\* check, without a move
QuickStalemate ==
    <<6454, 1030, 7337, 20, 3730, 1737, 6747, 2027, 3012, 1525, 1213, 415,
      1311, 353, 1101, 5317, 102, 1526, 224>>

\* The games the caller plays, as the moveIDs of their moves; each move is
\* played only if getValidMoves returned it.  Beyond the end of a line every
\* returned move is played, for MaxPly plies.
Book ==
    << <<6444, 1434, 7655, 122, 7542, 532>>,
       <<6343, 1333, 7245, 235, 7152, 122, 7363, 313>>,
       <<6444, 1020, 4434, 1333>>,
       <<6747, 1636, 4736, 1727, 3627, 1020, 2717, 2030>>,
       <<6343, 1424, 7363, 541, 6353>>,
       <<6454, 1434, 7337, 325, 3747, 414, 6050, 1423, 5040, 2333, 4030,
         2535, 4703>>,
       <<6343, 1424, 7152, 541>>,
       <<6343, 1424, 7263, 541>>,
       <<6444, 1424, 6050, 347>>,
       <<6444, 1333, 4433, 333, 6747, 1020, 7757, 2030, 5754, 3334>>,
       <<6646, 1737, 4637, 625, 3727, 1424, 2717, 514, 6050>>,
       <<6444, 1020, 4434, 2030, 7464, 3040, 6453, 4050, 5342, 1333>>,
       FoolsMate,
       QuickStalemate,
       <<6656, 1121, 7566, 1727, 6600, 122>>,
       <<6747, 1424, 7757, 1727, 5750, 550>>,
       <<6444, 1424, 7655, 1020, 7542, 2030, 6353, 541>>,
       <<6454, 120, 7464, 2041, 6353, 1222, 5444, 330, 6474, 4153>>,
       <<6040, 1232, 7050, 3242, 5051, 1525, 5141, 415, 4030, 1526, 3020,
         2637, 6151, 3747, 6343>>,
       <<6040, 1232, 7050, 3242, 5051, 1525, 5141, 415, 4030, 1526, 3020,
         2637, 6444, 3747, 6343>> >>

IsPrefix(a, b) == Len(a) <= Len(b) /\ \A i \in 1..Len(a) : a[i] = b[i]

\* the moveIDs of a move log
LogIDs(log) == [i \in 1..Len(log) |-> log[i].moveID]

\* whether the caller plays the game ids
MayPlay(ids) ==
    \E k \in 1..Len(Book) :
        \/ IsPrefix(ids, Book[k])
        \/ IsPrefix(Book[k], ids) /\ Len(ids) - Len(Book[k]) <= MaxPly

Idle == [pc |-> "idle"]

\* no ChessBoard widget: the engine is driven directly
NoBoard == [humanVsAi |-> FALSE]

Op(name, move, run) == [name |-> name, move |-> move, run |-> run]

Init ==
    /\ gs = NewGameState("gs")
    /\ validMoves = <<>>
    /\ stateCopy = NoObject
    /\ ai = Idle
    /\ op = Op("new", DefaultMove, 0)
    /\ hist = <<>>
    /\ chessBoard = NoBoard

\* validMoves = gs->getValidMoves()
GetValidMoves ==
    /\ ai.pc = "idle"
    /\ op.name # "getValidMoves"
    /\ \E r \in {getValidMoves(Heap, "gs")} :
        /\ gs' = r.h.gs
        /\ validMoves' = r.moves
    /\ op' = Op("getValidMoves", DefaultMove, 0)
    /\ UNCHANGED <<stateCopy, ai, hist>>
    /\ UNCHANGED chessBoard

\* gs->makeMove(validMoves[i])
MakeMove(i) ==
    /\ ai.pc = "idle"
    /\ op.name = "getValidMoves"
    /\ MayPlay(Append(LogIDs(gs.moveLog), validMoves[i].moveID))
    /\ gs' = makeMove(gs, validMoves[i])
    /\ hist' = Append(hist, Position(gs))
    /\ op' = Op("makeMove", validMoves[i], 0)
    /\ UNCHANGED <<validMoves, stateCopy, ai>>
    /\ UNCHANGED chessBoard

\* gs->undoMove()
UndoMove ==
    /\ ai.pc = "idle"
    /\ gs.moveLog # <<>> \/ op.name # "undoMove"
    /\ gs' = undoMove(gs)
    /\ hist' = IF hist = <<>> THEN hist ELSE PopBack(hist)
    /\ op' = Op("undoMove",
                IF gs.moveLog = <<>> THEN DefaultMove ELSE Back(gs.moveLog),
                IF op.name = "undoMove" THEN op.run + 1 ELSE 1)
    /\ UNCHANGED <<validMoves, stateCopy, ai>>
    /\ UNCHANGED chessBoard

Next ==
    \/ GetValidMoves
    \/ \E i \in 1..Len(validMoves) : MakeMove(i)
    \/ UndoMove

Spec == Init /\ [][Next]_vars

----------------------------------------------------------------------------
(* ChessAI: the evaluation *)

CHECKMATE == 1000

STALEMATE == 0

DEPTH == 3

\* ChessAI::pieceScore
pieceScore == [K |-> 0, Q |-> 9, R |-> 5, B |-> 3, N |-> 3, p |-> 1]

\* The position tables of initScoreTables.  The source holds doubles with at
\* most two decimals; the tables here hold them in hundredths.
knightScores ==
    << <<0, 10, 20, 20, 20, 20, 10, 0>>,
       <<10, 30, 50, 50, 50, 50, 30, 10>>,
       <<20, 50, 60, 65, 65, 60, 50, 20>>,
       <<20, 55, 65, 70, 70, 65, 55, 20>>,
       <<20, 50, 65, 70, 70, 65, 50, 20>>,
       <<20, 55, 60, 65, 65, 60, 55, 20>>,
       <<10, 30, 50, 55, 55, 50, 30, 10>>,
       <<0, 10, 20, 20, 20, 20, 10, 0>> >>

bishopScores ==
    << <<0, 20, 20, 20, 20, 20, 20, 0>>,
       <<20, 40, 40, 40, 40, 40, 40, 20>>,
       <<20, 40, 50, 60, 60, 50, 40, 20>>,
       <<20, 50, 50, 60, 60, 50, 50, 20>>,
       <<20, 40, 60, 60, 60, 60, 40, 20>>,
       <<20, 60, 60, 60, 60, 60, 60, 20>>,
       <<20, 50, 40, 40, 40, 40, 50, 20>>,
       <<0, 20, 20, 20, 20, 20, 20, 0>> >>

rookScores ==
    << <<25, 25, 25, 25, 25, 25, 25, 25>>,
       <<50, 75, 75, 75, 75, 75, 75, 50>>,
       <<0, 25, 25, 25, 25, 25, 25, 0>>,
       <<0, 25, 25, 25, 25, 25, 25, 0>>,
       <<0, 25, 25, 25, 25, 25, 25, 0>>,
       <<0, 25, 25, 25, 25, 25, 25, 0>>,
       <<0, 25, 25, 25, 25, 25, 25, 0>>,
       <<25, 25, 25, 50, 50, 25, 25, 25>> >>

queenScores ==
    << <<0, 20, 20, 30, 30, 20, 20, 0>>,
       <<20, 40, 40, 40, 40, 40, 40, 20>>,
       <<20, 40, 50, 50, 50, 50, 40, 20>>,
       <<30, 40, 50, 50, 50, 50, 40, 30>>,
       <<40, 40, 50, 50, 50, 50, 40, 30>>,
       <<20, 50, 50, 50, 50, 50, 40, 20>>,
       <<20, 40, 50, 40, 40, 40, 40, 20>>,
       <<0, 20, 20, 30, 30, 20, 20, 0>> >>

pawnScores ==
    << <<80, 80, 80, 80, 80, 80, 80, 80>>,
       <<70, 70, 70, 70, 70, 70, 70, 70>>,
       <<30, 30, 40, 50, 50, 40, 30, 30>>,
       <<25, 25, 30, 45, 45, 30, 25, 25>>,
       <<20, 20, 20, 40, 40, 20, 20, 20>>,
       <<25, 15, 10, 20, 20, 10, 15, 25>>,
       <<25, 30, 30, 0, 0, 30, 30, 25>>,
       <<20, 20, 20, 20, 20, 20, 20, 20>> >>

\* piecePositionScores[piece][row][col], in hundredths: the table of a black
\* piece is the table of the white one with its rows reversed
piecePositionScores(piece, row, col) ==
    LET table == CASE KindOf[piece] = "N" -> knightScores
                   [] KindOf[piece] = "B" -> bishopScores
                   [] KindOf[piece] = "Q" -> queenScores
                   [] KindOf[piece] = "R" -> rookScores
                   [] KindOf[piece] = "p" -> pawnScores
    IN  IF ColorOf[piece] = "w" THEN table[row + 1][col + 1]
        ELSE table[8 - row][col + 1]

\* the conversion of a double, given in hundredths, to int: towards zero
Truncate(x) == IF x >= 0 THEN x \div 100 ELSE -((-x) \div 100)

\* the squares scoreBoard finds a piece on, in the order of its two loops
occupied(board) ==
    SelectSeq([k \in 1..64 |-> <<(k - 1) \div 8, (k - 1) % 8>>],
              LAMBDA sq : board[sq[1]][sq[2]] # "--")

\* the loops of scoreBoard from the i-th of these squares on; score is an
\* int, and each += and -= of an int and a double converts the sum to int
RECURSIVE scoreFrom(_, _, _, _)
scoreFrom(board, squares, i, score) ==
    IF i > Len(squares) THEN score
    ELSE
    LET row == squares[i][1]
        col == squares[i][2]
        piece == board[row][col]
        piecePositionScore ==
            IF KindOf[piece] # "K"
            THEN piecePositionScores(piece, row, col) ELSE 0
        value == 100 * pieceScore[KindOf[piece]] + piecePositionScore
    IN  scoreFrom(board, squares, i + 1,
                  IF ColorOf[piece] = "w"
                  THEN Truncate(100 * score + value)
                  ELSE Truncate(100 * score - value))

\* ChessAI::scoreBoard
scoreBoard(g) ==
    IF g.checkmate THEN (IF g.whiteToMove THEN -CHECKMATE ELSE CHECKMATE)
    ELSE IF g.stalemate THEN STALEMATE
    ELSE scoreFrom(g.board, occupied(g.board), 1, 0)

\* ChessAI::isValidMove
isValidMove(move, moves) ==
    \E i \in 1..Len(moves) : MoveEq(move, moves[i])

\* a faulty findRandomMove, which yields the default move
findRandomMoveDefault(moves) == {DefaultMove}

\* a faulty findRandomMove, which yields a move of its own making for the
\* empty list
findRandomMoveMadeUp(moves) ==
    IF moves = <<>>
    THEN {[DefaultMove EXCEPT !.moveID = 6444, !.pieceMoved = "wp"]}
    ELSE {moves[i] : i \in 1..Len(moves)}

\* ChessAI::findRandomMove: the moves it may return
findRandomMove(moves) ==
    IF moves = <<>> THEN {DefaultMove}
    ELSE {moves[i] : i \in 1..Len(moves)}

\* The recursion of findMoveNegaMaxAlphaBeta with the alpha >= beta cutoff
\* removed (alpha and beta then have no effect): the loop over validMoves
\* from the i-th move on, on object o of heap h.  Yields the heap as the
\* call leaves it and the score it returns.
RECURSIVE negaMaxNoCutoff(_, _, _, _, _, _, _)
negaMaxNoCutoff(h, o, moves, i, depth, turnMultiplier, maxScore) ==
    IF depth = 0
    THEN [h |-> h, score |-> turnMultiplier * scoreBoard(h[o])]
    ELSE IF i > Len(moves) THEN [h |-> h, score |-> maxScore]
    ELSE
    LET made == [h EXCEPT ![o] = makeMove(h[o], moves[i])]
        nextMoves == getValidMoves(made, o)
        child == negaMaxNoCutoff(nextMoves.h, o, nextMoves.moves, 1,
                                 depth - 1, -turnMultiplier, -CHECKMATE)
        score == -child.score
        undone == [child.h EXCEPT ![o] = undoMove(child.h[o])]
    IN  IF score > maxScore
        THEN negaMaxNoCutoff(undone, o, moves, i + 1, depth, turnMultiplier,
                             score)
        ELSE negaMaxNoCutoff(undone, o, moves, i + 1, depth, turnMultiplier,
                             maxScore)

----------------------------------------------------------------------------
(* The rules of chess, stated on the board alone and independently of the  *)
(* generators above: attacks and pins.                                     *)

Squares == (0..7) \X (0..7)

At(board, sq) == board[sq[1]][sq[2]]

RefDirs ==
    {d \in (-1..1) \X (-1..1) : d # <<0, 0>>}

RefKnight ==
    {d \in (-2..2) \X (-2..2) : Abs(d[1]) * Abs(d[2]) = 2}

Enemy(color) == IF color = "w" THEN "b" ELSE "w"

\* the side to move, and the side that moved last
ToMove(g) == IF g.whiteToMove THEN "w" ELSE "b"

Mover(g) == IF g.whiteToMove THEN "b" ELSE "w"

RECURSIVE FirstPiece(_, _, _)
\* the first occupied square after sq in direction d, NoSquare if none
FirstPiece(board, sq, d) ==
    LET n == <<sq[1] + d[1], sq[2] + d[2]>>
    IN  IF ~OnBoard(n[1], n[2]) THEN NoSquare
        ELSE IF At(board, n) # "--" THEN n
        ELSE FirstPiece(board, n, d)

RECURSIVE Ray(_, _, _, _)
\* the squares a slider of color reaches from sq in direction d
Ray(board, color, sq, d) ==
    LET n == <<sq[1] + d[1], sq[2] + d[2]>>
    IN  IF ~OnBoard(n[1], n[2]) THEN {}
        ELSE IF At(board, n) = "--" THEN {n} \cup Ray(board, color, n, d)
        ELSE IF ColorOf[At(board, n)] = color THEN {}
        ELSE {n}

\* whether piece slides in direction d
SlidesAlong(piece, d) ==
    \/ KindOf[piece] = "Q"
    \/ KindOf[piece] = "R" /\ (d[1] = 0 \/ d[2] = 0)
    \/ KindOf[piece] = "B" /\ d[1] # 0 /\ d[2] # 0

\* whether a piece of color by attacks sq
Attacked(board, sq, by) ==
    \/ \E d \in RefDirs :
          LET f == FirstPiece(board, sq, d)
          IN  /\ f # NoSquare
              /\ ColorOf[At(board, f)] = by
              /\ SlidesAlong(At(board, f), d)
    \/ \E d \in RefKnight :
          /\ OnBoard(sq[1] + d[1], sq[2] + d[2])
          /\ At(board, <<sq[1] + d[1], sq[2] + d[2]>>) =
                 (IF by = "w" THEN "wN" ELSE "bN")
    \/ \E d \in RefDirs :
          /\ OnBoard(sq[1] + d[1], sq[2] + d[2])
          /\ At(board, <<sq[1] + d[1], sq[2] + d[2]>>) =
                 (IF by = "w" THEN "wK" ELSE "bK")
    \/ \E dc \in {-1, 1} :
          LET row == sq[1] + (IF by = "w" THEN 1 ELSE -1)
          IN  /\ OnBoard(row, sq[2] + dc)
              /\ At(board, <<row, sq[2] + dc>>) =
                     (IF by = "w" THEN "wp" ELSE "bp")

\* the squares of the kings of color
KingSquares(board, color) ==
    {sq \in Squares : At(board, sq) = (IF color = "w" THEN "wK" ELSE "bK")}

\* whether the king of color stands attacked
KingAttacked(board, color) ==
    \E k \in KingSquares(board, color) : Attacked(board, k, Enemy(color))

\* the directions, seen from the king of color, along which the piece on sq
\* is pinned: sq is the first piece from the king, and the next one behind
\* it is an enemy piece that slides that way
PinAxes(board, color, sq) ==
    {d \in RefDirs :
        /\ ColorOf[At(board, sq)] = color
        /\ KindOf[At(board, sq)] \in {"p", "N", "B", "R", "Q"}
        /\ \E k \in KingSquares(board, color) : FirstPiece(board, k, d) = sq
        /\ LET t == FirstPiece(board, sq, d)
           IN  /\ t # NoSquare
               /\ ColorOf[At(board, t)] = Enemy(color)
               /\ SlidesAlong(At(board, t), d)}

\* whether move m stays on the line of direction d
OnAxis(m, d) ==
    (m.endRow - m.startRow) * d[2] = (m.endCol - m.startCol) * d[1]

\* the squares the pawn of color on sq may go to along d
PawnOnAxis(g, color, sq, d) ==
    LET f == IF color = "w" THEN -1 ELSE 1
        home == IF color = "w" THEN 6 ELSE 1
        one == <<sq[1] + f, sq[2]>>
        two == <<sq[1] + 2 * f, sq[2]>>
        take == <<sq[1] + f, sq[2] + (IF d[1] = f THEN d[2] ELSE -d[2])>>
    IN  IF d[1] = 0 THEN {}
        ELSE IF d[2] = 0
        THEN IF OnBoard(one[1], one[2]) /\ At(g.board, one) = "--"
             THEN {one} \cup (IF sq[1] = home /\ At(g.board, two) = "--"
                              THEN {two} ELSE {})
             ELSE {}
        ELSE IF /\ OnBoard(take[1], take[2])
                /\ \/ ColorOf[At(g.board, take)] = Enemy(color)
                   \/ take = g.enPassantPossible
             THEN {take} ELSE {}

\* the squares the piece of color on sq, pinned along d, may go to
MovesOnAxis(g, color, sq, d) ==
    LET piece == At(g.board, sq)
    IN  IF KindOf[piece] = "p" THEN PawnOnAxis(g, color, sq, d)
        ELSE IF KindOf[piece] = "N" THEN {}
        ELSE IF SlidesAlong(piece, d)
        THEN Ray(g.board, color, sq, d)
                 \cup Ray(g.board, color, sq, <<-d[1], -d[2]>>)
        ELSE {}

\* the squares validMoves sends the piece on sq to
Targets(moves, sq) ==
    {<<moves[i].endRow, moves[i].endCol>> :
        i \in {j \in 1..Len(moves) :
                  <<moves[j].startRow, moves[j].startCol>> = sq}}

----------------------------------------------------------------------------
(* Properties of makeMove, undoMove and getValidMoves *)

\* C1: undoing a move restores the position in which it was made (board,
\* side to move, both king locations, castling rights and en passant
\* square), so that N makes followed by N undos restore the position.
C1_RoundTrip ==
    [][(op'.name = "undoMove" /\ hist # <<>>)
           => Position(gs') = Back(hist)]_vars

\* the moves of the promotion game and one more have all been undone
C1_Witness ==
    /\ op.name = "undoMove"
    /\ op.run = 9
    /\ op.move.moveID = 6747
    /\ hist = <<>>
    /\ Position(gs) = Position(NewGameState("gs"))

\* C2: after makeMove of a move that getValidMoves returned, the king of
\* the side that moved is not attacked.
C2_Soundness ==
    op.name = "makeMove" => ~KingAttacked(gs.board, Mover(gs))

\* C7 as stated: the three logs have one length, the number of moves
\* applied and not yet undone, at all times.
C7_SameLength ==
    /\ Len(gs.moveLog) = Len(hist)
    /\ Len(gs.castlingRightsLog) = Len(hist)
    /\ Len(gs.enPassantPossibleLog) = Len(hist)

\* C7 amended: moveLog has one entry per move applied and not yet undone;
\* castlingRightsLog and enPassantPossibleLog have that many entries and the
\* one pushed by the constructor.
C7_LogLengths ==
    /\ Len(gs.moveLog) = Len(hist)
    /\ Len(gs.castlingRightsLog) = Len(hist) + 1
    /\ Len(gs.enPassantPossibleLog) = Len(hist) + 1

\* a move has been undone with two more still applied
C7_Witness ==
    /\ op.name = "undoMove"
    /\ op.move.moveID # 0
    /\ Len(hist) = 2

\* C8: after every makeMove, undoMove and getValidMoves the two king
\* locations are the squares of "wK" and "bK" on the board.
C8_KingLocations ==
    op.name \in {"makeMove", "undoMove", "getValidMoves"}
        => /\ KingSquares(gs.board, "w") = {gs.whiteKingLocation}
           /\ KingSquares(gs.board, "b") = {gs.blackKingLocation}

\* C9: getValidMoves returns no move that takes a pinned pawn, knight,
\* bishop, rook or queen off the line between its king and the pinner.
C9_PinnedStaysOnAxis ==
    op.name = "getValidMoves"
        => \A i \in 1..Len(validMoves) :
              \A d \in PinAxes(gs.board, ToMove(gs),
                               <<validMoves[i].startRow,
                                 validMoves[i].startCol>>) :
                  OnAxis(validMoves[i], d)

\* C10: when the side to move is not in check, getValidMoves returns for a
\* pinned piece exactly its moves along the pin line, the pushes of a pawn
\* pinned on its file included, with the king behind or ahead of it.
C10_PinnedExactlyOnAxis ==
    (op.name = "getValidMoves" /\ ~KingAttacked(gs.board, ToMove(gs)))
        => \A sq \in Squares :
              \A d \in PinAxes(gs.board, ToMove(gs), sq) :
                  Targets(validMoves, sq) = MovesOnAxis(gs, ToMove(gs), sq, d)

----------------------------------------------------------------------------
(* The board widget and the search it starts.  ChessBoard plays the moves  *)
(* of a game on the live GameState gs; when the AI is to move it hands a   *)
(* copy of gs and of validMoves to ChessAI::findBestMove, which runs in    *)
(* the thread of the AI.  The search is followed call by call: ai.stack    *)
(* holds the frames of findMoveNegaMaxAlphaBeta, the root first.           *)

\* Orderings of the shuffle of findBestMove that are explored: the
\* rotations of validMoves by 0..MaxShift, each forwards and reversed.
MaxShift == 1

\* The games played before the AI is asked for a move, as moveIDs.
AIGames ==
    << <<6646, 1222, 6757, 1434, 5747, 347, 7747, 1535, 4635, 3444, 4717,
         4454, 1707, 5465, 7465, 1626, 3526, 514, 706>>,
       <<6343, 1737, 6757, 1131, 6444, 727, 7227, 627, 4434, 1232, 4332,
         2746, 7313, 313, 6252, 4665, 7465, 1357, 7531, 113, 3113, 413,
         7657, 1030, 6646, 3746, 6050, 4657, 6141, 3041, 5041, 70, 7757,
         7071, 6556, 7141, 5241, 1304, 3222, 257, 5657, 1424, 5756, 514,
         4131, 1436, 2212, 3647>>,
       <<6747, 1525, 6343, 1333, 7363, 122, 6141, 2241, 6341, 2535, 4111,
         211, 7227, 627, 6252, 1232, 4332, 313, 7657, 1122, 6040, 2240,
         7150, 1302, 6646, 232, 4635, 3265, 5765, 2735, 4737, 3523, 5242,
         3342, 5042, 2342, 7040, 4221, 4010, 10, 6573, 1424, 7361, 1015,
         6444, 1575, 7775, 2142, 7565, 4261, 6561, 514, 6167, 1441, 6763,
         4163, 7463, 1727, 4434, 1626, 3726>>,
       <<6151, 1020, 6454, 1535, 7520, 20, 7475, 2060, 7655, 6062, 5141,
         6263, 7020, 120, 7363, 2041, 6313>>,
       <<6141, 1131, 6353, 1333, 5343, 235, 6040, 3562, 4031,
         6273, 7473, 1737, 7010, 10, 6646, 3746, 6444, 1050, 7250,
         3344, 7372, 343, 6555, 4341, 5544, 1424, 3121, 727, 2112,
         4171, 7263, 2726, 1201, 7101, 5005, 167, 7767, 405, 7557,
         4657, 6757, 2676, 6353, 7636, 5717, 3635, 4435, 2435,
         1716, 516, 5342, 3545, 4231, 1617, 3140>> >>

\* whether the moves ids are the start of a game
InGame(ids) == \E k \in 1..Len(AIGames) : IsPrefix(ids, AIGames[k])

\* whether the moves ids are a whole game
GamePlayed(ids) == \E k \in 1..Len(AIGames) : ids = AIGames[k]

\* moves rotated by k
Rotated(moves, k) ==
    [i \in 1..Len(moves) |-> moves[((i - 1 + k) % Len(moves)) + 1]]

\* moves in reverse order
Reversed(moves) == [i \in 1..Len(moves) |-> moves[Len(moves) + 1 - i]]

\* a frame of findMoveNegaMaxAlphaBeta: its parameters, its local maxScore
\* and the index i of the move its loop is at
Frame(moves, depth, alpha, beta, turnMultiplier) ==
    [validMoves |-> moves, i |-> 1, depth |-> depth, alpha |-> alpha,
     beta |-> beta, turnMultiplier |-> turnMultiplier,
     maxScore |-> -CHECKMATE]

\* the innermost frame
Top == ai.stack[Len(ai.stack)]

\* ChessBoard::ChessBoard: gs = new GameState(); validMoves =
\* gs->getValidMoves()
InitAI ==
    \E r \in {getValidMoves([gs |-> NewGameState("gs"),
                             stateCopy |-> NoObject], "gs")} :
        /\ gs = r.h.gs
        /\ validMoves = r.moves
        /\ stateCopy = NoObject
        /\ ai = Idle
        /\ op = Op("new", DefaultMove, 0)
        /\ hist = <<>>
        /\ chessBoard = NoBoard

\* ChessBoard::mousePressEvent on the second click of a move of validMoves:
\* gs->makeMove(validMove); validMoves = gs->getValidMoves()
PlayMove(i) ==
    /\ ai.pc = "idle"
    /\ InGame(Append(LogIDs(gs.moveLog), validMoves[i].moveID))
    /\ \E r \in {getValidMoves(
                    [Heap EXCEPT !.gs = makeMove(gs, validMoves[i])], "gs")} :
           /\ gs' = r.h.gs
           /\ validMoves' = r.moves
    /\ hist' = Append(hist, Position(gs))
    /\ op' = Op("makeMove", validMoves[i], 0)
    /\ UNCHANGED <<stateCopy, ai>>
    /\ UNCHANGED chessBoard

\* the hand-over of ChessBoard: stateCopy = new GameState(*gs); movesCopy =
\* validMoves; emit findAIMove(stateCopy, movesCopy)
FindAIMove ==
    /\ ai.pc = "idle"
    /\ GamePlayed(LogIDs(gs.moveLog))
    /\ ~(gs.checkmate \/ gs.stalemate)
    /\ stateCopy' = CopyGameState(gs)
    /\ ai' = [pc |-> "queued", validMoves |-> validMoves,
              call |-> [gs |-> gs, stateCopy |-> CopyGameState(gs)]]
    /\ op' = Op("findAIMove", DefaultMove, 0)
    /\ UNCHANGED <<gs, validMoves, hist>>
    /\ UNCHANGED chessBoard

\* ChessAI::findBestMove up to its call of findMoveNegaMaxAlphaBeta; the
\* shuffle yields the rotation by k, reversed if reverse
FindBestMove(k, reverse) ==
    /\ ai.pc = "queued"
    /\ LET rotated == Rotated(ai.validMoves, k)
           shuffledMoves == IF reverse THEN Reversed(rotated) ELSE rotated
       IN  ai' = IF ai.validMoves = <<>>
                 THEN [ai EXCEPT !.pc = "done"] @@
                      [nextMove |-> DefaultMove, recorded |-> DefaultMove,
                       score |-> 0, fallback |-> FALSE, cutoff |-> FALSE,
                       shuffledMoves |-> <<>>]
                 ELSE [ai EXCEPT !.pc = "search"] @@
                      [nextMove |-> DefaultMove,
                       cutoff |-> FALSE,
                       shuffledMoves |-> shuffledMoves,
                       stack |-> <<Frame(shuffledMoves, DEPTH, -CHECKMATE,
                                         CHECKMATE,
                                         IF stateCopy.whiteToMove
                                         THEN 1 ELSE -1)>>]
    /\ op' = Op("findBestMove", DefaultMove, 0)
    /\ UNCHANGED <<gs, validMoves, stateCopy, hist>>
    /\ UNCHANGED chessBoard

\* findMoveNegaMaxAlphaBeta, one turn of the loop up to the recursive call:
\* gs->makeMove(move); nextMoves = gs->getValidMoves(); call with depth - 1
Descend ==
    /\ ai.pc = "search"
    /\ Top.depth > 0
    /\ Top.i <= Len(Top.validMoves)
    /\ \E r \in {getValidMoves(
                    [Heap EXCEPT !.stateCopy =
                        makeMove(stateCopy, Top.validMoves[Top.i])],
                    "stateCopy")} :
           /\ gs' = r.h.gs
           /\ stateCopy' = r.h.stateCopy
           /\ ai' = [ai EXCEPT !.stack =
                        Append(@, Frame(r.moves, Top.depth - 1, -Top.beta,
                                        -Top.alpha, -Top.turnMultiplier))]
    /\ op' = Op("descend", DefaultMove, 0)
    /\ UNCHANGED <<validMoves, hist>>
    /\ UNCHANGED chessBoard

\* findMoveNegaMaxAlphaBeta returns into the loop of its caller: the value
\* of the base case or maxScore comes back, the caller negates it, undoes
\* the move, updates maxScore, nextMove and alpha, and breaks on alpha >=
\* beta
Return ==
    /\ ai.pc = "search"
    /\ Len(ai.stack) >= 2
    /\ Top.depth = 0 \/ Top.i > Len(Top.validMoves)
    /\ \E returned \in {IF Top.depth = 0
                        THEN Top.turnMultiplier * scoreBoard(stateCopy)
                        ELSE Top.maxScore} :
       LET caller == ai.stack[Len(ai.stack) - 1]
           move == caller.validMoves[caller.i]
           score == -returned
           maxScore == IF score > caller.maxScore
                       THEN score ELSE caller.maxScore
           alpha == IF maxScore > caller.alpha
                    THEN maxScore ELSE caller.alpha
           break == alpha >= caller.beta
       IN  /\ stateCopy' = undoMove(stateCopy)
           /\ ai' = [ai EXCEPT
                        !.stack =
                            Append(SubSeq(@, 1, Len(@) - 2),
                                   [caller EXCEPT
                                       !.maxScore = maxScore,
                                       !.alpha = alpha,
                                       !.i = IF break
                                             THEN Len(caller.validMoves) + 1
                                             ELSE caller.i + 1]),
                        !.nextMove =
                            IF score > caller.maxScore /\ caller.depth = DEPTH
                            THEN move ELSE @,
                        !.cutoff =
                            @ \/ (break /\ caller.i < Len(caller.validMoves))]
    /\ op' = Op("return", DefaultMove, 0)
    /\ UNCHANGED <<gs, validMoves, hist>>
    /\ UNCHANGED chessBoard

\* the outermost findMoveNegaMaxAlphaBeta returns and findBestMove ends:
\* the fallback to findRandomMove, emit findBestMoveFinished(nextMove)
Finish ==
    /\ ai.pc = "search"
    /\ Len(ai.stack) = 1
    /\ Top.i > Len(Top.validMoves)
    /\ LET fallback == ai.nextMove.moveID = 0
                           \/ ~isValidMove(ai.nextMove, ai.validMoves)
       IN  \E move \in (IF fallback THEN findRandomMove(ai.validMoves)
                        ELSE {ai.nextMove}) :
               /\ ai' = [pc |-> "done", validMoves |-> ai.validMoves,
                         call |-> ai.call, nextMove |-> move,
                         recorded |-> ai.nextMove,
                         score |-> Top.maxScore, fallback |-> fallback,
                         cutoff |-> ai.cutoff,
                         shuffledMoves |-> ai.shuffledMoves]
               /\ op' = Op("findBestMoveFinished", move, 0)
    /\ UNCHANGED <<gs, validMoves, stateCopy, hist>>
    /\ UNCHANGED chessBoard

\* whether moves a and b have the same start and end squares
SameSquares(a, b) ==
    /\ a.startRow = b.startRow
    /\ a.startCol = b.startCol
    /\ a.endRow = b.endRow
    /\ a.endCol = b.endCol

\* the move ChessBoard::handleAIMove applies for the move the AI returned:
\* the first move of validMoves with its squares, else the first move of
\* validMoves, else none
appliedForAIMove(move, moves) ==
    LET matches == {i \in 1..Len(moves) : SameSquares(move, moves[i])}
    IN  IF matches # {}
        THEN moves[CHOOSE i \in matches : \A j \in matches : i <= j]
        ELSE IF moves # <<>> THEN moves[1] ELSE DefaultMove

\* ChessBoard::handleAIMove(move) while aiThinking: the move is looked up
\* in validMoves, the move found (or the first of validMoves) is made on the
\* live GameState and validMoves = gs->getValidMoves()
HandleAIMove ==
    /\ ai.pc = "done"
    /\ ~(gs.checkmate \/ gs.stalemate)
    /\ \E applied \in {appliedForAIMove(ai.nextMove, validMoves)} :
           /\ applied # DefaultMove
           /\ \E r \in {getValidMoves(
                           [Heap EXCEPT !.gs = makeMove(gs, applied)],
                           "gs")} :
                  /\ gs' = r.h.gs
                  /\ validMoves' = r.moves
           /\ op' = Op("handleAIMove", applied, 0)
    /\ hist' = Append(hist, Position(gs))
    /\ ai' = Idle
    /\ UNCHANGED stateCopy
    /\ UNCHANGED chessBoard

NextAI ==
    \/ \E i \in 1..Len(validMoves) : PlayMove(i)
    \/ FindAIMove
    \/ \E k \in 0..MaxShift : \E reverse \in BOOLEAN : FindBestMove(k, reverse)
    \/ Descend
    \/ Return
    \/ Finish
    \/ HandleAIMove

SpecAI == InitAI /\ [][NextAI]_vars

-----------------------------------------------------------------------------
(* The search: claims *)

\* whether GameState objects a and b agree on the position and the logs
SameState(a, b) ==
    /\ Position(a) = Position(b)
    /\ a.moveLog = b.moveLog
    /\ a.castlingRightsLog = b.castlingRightsLog
    /\ a.enPassantPossibleLog = b.enPassantPossibleLog

\* The recursion without the cutoff on the objects, depth and
\* turnMultiplier of the call that findBestMove made: run 0 for the whole
\* of shuffledMoves, run k for its k-th move alone.
unprunedRuns ==
    [k \in 0..Len(ai.shuffledMoves) |->
        negaMaxNoCutoff([gs |-> ai.call.gs, stateCopy |-> ai.call.stateCopy],
                        "stateCopy",
                        IF k = 0 THEN ai.shuffledMoves
                        ELSE <<ai.shuffledMoves[k]>>,
                        1, DEPTH,
                        IF ai.call.stateCopy.whiteToMove THEN 1 ELSE -1,
                        -CHECKMATE)]

\* the score of the recursion without the cutoff for the call that
\* findBestMove made: the same objects, ordering, depth and turnMultiplier
unprunedScore == unprunedRuns[0].score

\* C3: inside the search every makeMove is undone exactly once before the
\* enclosing call returns (the moves made and not yet undone are those of
\* the calls in progress), and once findBestMove has returned the object
\* it searched has the board, whiteToMove, king locations, castlingRights,
\* enPassantPossible and the three logs it had when the call was made.
C3_SearchRestores ==
    /\ ai.pc = "search" =>
           Len(stateCopy.moveLog) =
               Len(ai.call.stateCopy.moveLog) + Len(ai.stack) - 1
    /\ ai.pc = "done" => SameState(stateCopy, ai.call.stateCopy)

\* C4: the score findMoveNegaMaxAlphaBeta returns with the full window
\* equals the score of the same recursion without the alpha >= beta
\* cutoff, for the same position, depth and ordering of the moves.
C4_PruningExact ==
    ai.pc = "done" /\ ai.validMoves # <<>> => ai.score = unprunedScore

\* C5: for non-empty validMoves findBestMove returns an element of
\* validMoves (same start and end squares), never the default move: the
\* recorded best move if one was recorded and is in validMoves, otherwise
\* a move findRandomMove chose from validMoves.
C5_ReturnsValidMove ==
    ai.pc = "done" /\ ai.validMoves # <<>> =>
        /\ ai.nextMove.moveID # 0
        /\ \E i \in 1..Len(ai.validMoves) :
               /\ ai.nextMove.startRow = ai.validMoves[i].startRow
               /\ ai.nextMove.startCol = ai.validMoves[i].startCol
               /\ ai.nextMove.endRow = ai.validMoves[i].endRow
               /\ ai.nextMove.endCol = ai.validMoves[i].endCol
        /\ (ai.recorded.moveID # 0 /\ isValidMove(ai.recorded, ai.validMoves))
               => ai.nextMove = ai.recorded

\* C5 witness: a search that recorded no best move has returned, by the
\* fallback, a move of the non-empty validMoves.
C5_Witness ==
    /\ ai.pc = "done"
    /\ ai.validMoves # <<>>
    /\ ai.fallback
    /\ ai.recorded.moveID = 0
    /\ isValidMove(ai.nextMove, ai.validMoves)

\* C6: from the hand-over of the clone until the search has returned no
\* step of the search writes a field of the live GameState (it stays as
\* it was at the hand-over) or reads one (the moves getValidMoves yields
\* on the clone do not depend on what the live GameState holds).
C6_LiveUntouched ==
    ai.pc \in {"queued", "search", "done"} =>
        /\ gs = ai.call.gs
        /\ getValidMoves(Heap, "stateCopy").moves =
               getValidMoves([Heap EXCEPT !.gs = NewGameState("gs")],
                             "stateCopy").moves

-----------------------------------------------------------------------------
(* Properties of getValidMoves: castling, en passant, the end of the game *)

\* whether color has the right to castle towards side (1: kingside,
\* -1: queenside)
HasRight(g, color, side) ==
    IF color = "w"
    THEN (IF side = 1 THEN g.castlingRights.wks ELSE g.castlingRights.wqs)
    ELSE (IF side = 1 THEN g.castlingRights.bks ELSE g.castlingRights.bqs)

\* whether the rules of chess allow the castle move m in g: the right is
\* set, the king's square is not attacked, the squares between king and
\* rook are empty, the squares the king transits and lands on are not
\* attacked
CastleAllowed(g, m) ==
    LET color == ToMove(g)
        side == IF m.endCol > m.startCol THEN 1 ELSE -1
        row == m.startRow
        col == m.startCol
        between == IF side = 1 THEN (col + 1)..6 ELSE 1..(col - 1)
    IN  /\ HasRight(g, color, side)
        /\ ~Attacked(g.board, <<row, col>>, Enemy(color))
        /\ \A c \in between : g.board[row][c] = "--"
        /\ ~Attacked(g.board, <<row, col + side>>, Enemy(color))
        /\ ~Attacked(g.board, <<row, col + 2 * side>>, Enemy(color))

\* C11: every castle move getValidMoves returns is allowed: the right is
\* set, the king's square is not attacked, the squares between king and
\* rook are empty, and neither the square the king transits nor the one it
\* lands on is attacked by an enemy piece (a pawn's diagonal and an
\* adjacent king included).
C11_CastleOnlyIfAllowed ==
    op.name = "getValidMoves" =>
        \A i \in 1..Len(validMoves) :
            validMoves[i].isCastleMove => CastleAllowed(gs, validMoves[i])

\* whether move m is a pawn move of two rows
IsDoubleAdvance(m) ==
    KindOf[m.pieceMoved] = "p" /\ Abs(m.startRow - m.endRow) = 2

\* the square the pawn of the double advance m passed over
PassedOver(m) == <<(m.startRow + m.endRow) \div 2, m.endCol>>

\* the board after the pawn on sq takes the pawn of the double advance
\* last en passant
AfterEnPassant(board, sq, last) ==
    [board EXCEPT ![sq[1]][sq[2]] = "--",
                  ![last.endRow][last.endCol] = "--",
                  ![PassedOver(last)[1]][PassedOver(last)[2]] =
                      board[sq[1]][sq[2]]]

\* the moves of validMoves that start on sq
MovesFrom(moves, sq) ==
    {moves[i] : i \in {j \in 1..Len(moves) :
                          <<moves[j].startRow, moves[j].startCol>> = sq}}

\* C12: right after a pawn move of two rows that lands beside an enemy
\* pawn, getValidMoves gives that pawn, besides its ordinary moves (forward
\* moves and captures of a piece), exactly the en passant capture onto the
\* square passed over, whenever that capture does not leave its own king
\* attacked; after any other move getValidMoves returns no en passant
\* capture.
C12_EnPassantOnce ==
    (op.name = "getValidMoves" /\ gs.moveLog # <<>>) =>
        LET last == Back(gs.moveLog)
            color == ToMove(gs)
            pawn == IF color = "w" THEN "wp" ELSE "bp"
        IN  IF IsDoubleAdvance(last)
            THEN \A dc \in {-1, 1} :
                    LET sq == <<last.endRow, last.endCol + dc>>
                        from == MovesFrom(validMoves, sq)
                    IN  (OnBoard(sq[1], sq[2]) /\ At(gs.board, sq) = pawn) =>
                            /\ \A m \in from :
                                  IF m.isEnpassantMove
                                  THEN <<m.endRow, m.endCol>> =
                                           PassedOver(last)
                                  ELSE \/ m.endCol = sq[2]
                                       \/ ColorOf[gs.board[m.endRow][m.endCol]]
                                              = Enemy(color)
                            /\ ~KingAttacked(
                                   AfterEnPassant(gs.board, sq, last), color)
                               => Cardinality(
                                      {m \in from : m.isEnpassantMove}) = 1
            ELSE \A i \in 1..Len(validMoves) :
                    ~validMoves[i].isEnpassantMove

\* C13: after every getValidMoves call, an empty list comes with
\* checkmate = inCheck and stalemate = ~inCheck, a non-empty list with both
\* flags false; when the list is empty and the king of the side to move is
\* not attacked, stalemate is true and checkmate false.
C13_EndFlags ==
    op.name = "getValidMoves" =>
        IF validMoves = <<>>
        THEN /\ gs.checkmate = gs.inCheck
             /\ gs.stalemate = ~gs.inCheck
             /\ ~KingAttacked(gs.board, ToMove(gs)) =>
                    gs.stalemate /\ ~gs.checkmate
        ELSE ~gs.checkmate /\ ~gs.stalemate

\* getValidMoves has returned the empty list in a stalemate position
C13_Witness ==
    /\ op.name = "getValidMoves"
    /\ validMoves = <<>>
    /\ ~KingAttacked(gs.board, ToMove(gs))
    /\ gs.stalemate

\* C14: after 1. f3 e5 2. g4 Qh4, each move taken from getValidMoves,
\* getValidMoves for White returns the empty list, checkmate is true and
\* stalemate false.
C14_FoolsMate ==
    (op.name = "getValidMoves" /\ LogIDs(gs.moveLog) = FoolsMate) =>
        validMoves = <<>> /\ gs.checkmate /\ ~gs.stalemate

\* getValidMoves has been called after the four moves of the fool's mate
C14_Witness ==
    /\ op.name = "getValidMoves"
    /\ LogIDs(gs.moveLog) = FoolsMate
    /\ gs.whiteToMove
    /\ gs.inCheck

\* C15: on the start position getValidMoves returns exactly 20 distinct
\* moves: 16 pawn moves and 4 knight moves, no castle move and no king move.
C15_TwentyMoves ==
    (op.name = "getValidMoves" /\ gs.moveLog = <<>>) =>
        LET n == Len(validMoves)
            of(kind) == {i \in 1..n : KindOf[validMoves[i].pieceMoved] = kind}
        IN  /\ n = 20
            /\ Cardinality({validMoves[i].moveID : i \in 1..n}) = 20
            /\ Cardinality(of("p")) = 16
            /\ Cardinality(of("N")) = 4
            /\ of("K") = {}
            /\ \A i \in 1..n : ~validMoves[i].isCastleMove

\* getValidMoves has been called on the GameState as constructed
C15_Witness ==
    /\ op.name = "getValidMoves"
    /\ gs.moveLog = <<>>
    /\ hist = <<>>
    /\ gs.board = NewGameState("gs").board
    /\ validMoves # <<>>

(* Castling rights, the en passant square and the logs *)

\* the castling rights as the set of those that are true
RightsHeld(cr) ==
    {n \in {"wks", "wqs", "bks", "bqs"} : cr[n]}

\* the right lost when move m captures a rook on its home corner, or "none"
CornerRight(m) ==
    IF m.pieceCaptured = "wR" /\ m.endRow = 7 /\ m.endCol = 0 THEN "wqs"
    ELSE IF m.pieceCaptured = "wR" /\ m.endRow = 7 /\ m.endCol = 7 THEN "wks"
    ELSE IF m.pieceCaptured = "bR" /\ m.endRow = 0 /\ m.endCol = 0 THEN "bqs"
    ELSE IF m.pieceCaptured = "bR" /\ m.endRow = 0 /\ m.endCol = 7 THEN "bks"
    ELSE "none"

\* C16: while a move that captured a rook on its home corner (a1, h1, a8,
\* h8) is applied and not undone, the matching castling right is false,
\* whatever moves are made, undone or generated after it.
C16_CornerCaptureClearsRight ==
    \A k \in 1..Len(gs.moveLog) :
        CornerRight(gs.moveLog[k]) \notin RightsHeld(gs.castlingRights)

\* a rook was captured on its home corner while the right was still held,
\* and another move has been made since
C16_Witness ==
    \E k \in 1..Len(gs.moveLog) :
        /\ CornerRight(gs.moveLog[k]) \in RightsHeld(hist[k].castlingRights)
        /\ k < Len(gs.moveLog)
        /\ op.name = "makeMove"

\* C17: no makeMove and no getValidMoves call turns a castling right from
\* false to true; a step after which a right is held that was not held before
\* is an undoMove.
C17_RightsOnlyRestoredByUndo ==
    [][/\ op'.name \in {"makeMove", "getValidMoves"} =>
              RightsHeld(gs'.castlingRights) \subseteq
                  RightsHeld(gs.castlingRights)
       /\ ~(RightsHeld(gs'.castlingRights) \subseteq
                RightsHeld(gs.castlingRights)) => op'.name = "undoMove"]_vars

\* a king move that cost White both rights has been undone and the rights
\* are back; getValidMoves and makeMove had run with the rights lost
C17_Witness ==
    /\ op.name = "undoMove"
    /\ op.move.pieceMoved = "wK"
    /\ {"wks", "wqs"} \subseteq RightsHeld(gs.castlingRights)

\* C18: after every makeMove and every undoMove, enPassantPossible is the
\* square passed over by the last move of moveLog if moveLog is not empty
\* and that move is a pawn move of two rows, and (-1, -1) otherwise.
C18_EnPassantSquare ==
    op.name \in {"makeMove", "undoMove"} =>
        gs.enPassantPossible =
            IF gs.moveLog # <<>> /\ IsDoubleAdvance(Back(gs.moveLog))
            THEN PassedOver(Back(gs.moveLog))
            ELSE NoSquare

\* an undoMove has brought back a two-row pawn move as the last move, and
\* with it the en passant square
C18_Witness ==
    /\ op.name = "undoMove"
    /\ gs.moveLog # <<>>
    /\ IsDoubleAdvance(Back(gs.moveLog))
    /\ ~IsDoubleAdvance(op.move)
    /\ OnBoard(gs.enPassantPossible[1], gs.enPassantPossible[2])

\* C19: when moveLog is empty, undoMove changes no field of the GameState:
\* board, whiteToMove, king locations, castlingRights, enPassantPossible,
\* the three logs and the checkmate and stalemate flags stay as they are.
C19_UndoOnEmptyLog ==
    [][(op'.name = "undoMove" /\ gs.moveLog = <<>>) => gs' = gs]_vars

\* undoMove has been called on an empty moveLog after getValidMoves
C19_Witness ==
    /\ op.name = "undoMove"
    /\ op.move = DefaultMove
    /\ gs.moveLog = <<>>
    /\ Len(gs.castlingRightsLog) = 1
    /\ validMoves # <<>>

----------------------------------------------------------------------------
(* The functions of ChessAI called on the list getValidMoves returned,     *)
(* the empty list of a finished game included.                             *)

\* ChessAI::findRandomMove(validMoves), called on the list in hand
FindRandomMove ==
    /\ ai.pc = "idle"
    /\ op.name = "getValidMoves"
    /\ \E move \in findRandomMove(validMoves) :
           /\ ai' = [pc |-> "returned", nextMove |-> move,
                     call |-> [gs |-> gs, stateCopy |-> stateCopy]]
           /\ op' = Op("findRandomMove", move, 0)
    /\ UNCHANGED <<gs, validMoves, stateCopy, hist>>
    /\ UNCHANGED chessBoard

\* a call of ChessAI::findBestMove(new GameState(*gs), validMoves) when the
\* game is over and the list is empty
FindAIMoveGameOver ==
    /\ ai.pc = "idle"
    /\ op.name = "getValidMoves"
    /\ validMoves = <<>>
    /\ stateCopy' = CopyGameState(gs)
    /\ ai' = [pc |-> "queued", validMoves |-> validMoves,
              call |-> [gs |-> gs, stateCopy |-> CopyGameState(gs)]]
    /\ op' = Op("findAIMove", DefaultMove, 0)
    /\ UNCHANGED <<gs, validMoves, hist>>
    /\ UNCHANGED chessBoard

NextCall ==
    \/ GetValidMoves
    \/ \E i \in 1..Len(validMoves) : MakeMove(i)
    \/ UndoMove
    \/ FindRandomMove
    \/ FindAIMoveGameOver
    \/ \E k \in 0..MaxShift : \E reverse \in BOOLEAN : FindBestMove(k, reverse)

SpecCall == Init /\ [][NextCall]_vars

\* C20: findRandomMove called with an empty list, and findBestMove called
\* with an empty list, return the default move (moveID 0, pieceMoved "--")
\* and leave the live GameState and the copy as they were; findRandomMove
\* called with a non-empty list returns one of its elements.
C20_EmptyListDefaultMove ==
    /\ op.name = "findRandomMove" =>
           /\ IF validMoves = <<>>
              THEN ai.nextMove.moveID = 0 /\ ai.nextMove.pieceMoved = "--"
              ELSE \E i \in 1..Len(validMoves) : ai.nextMove = validMoves[i]
           /\ gs = ai.call.gs
           /\ stateCopy = ai.call.stateCopy
    /\ (op.name = "findBestMove" /\ ai.validMoves = <<>>) =>
           /\ ai.nextMove.moveID = 0 /\ ai.nextMove.pieceMoved = "--"
           /\ gs = ai.call.gs
           /\ stateCopy = ai.call.stateCopy

\* findBestMove has returned from a call with the empty list of a mated side
C20_Witness ==
    /\ op.name = "findBestMove"
    /\ ai.pc = "done"
    /\ ai.validMoves = <<>>
    /\ gs.checkmate

----------------------------------------------------------------------------
(* The moves ChessBoard applies to the live GameState *)

\* C21: every move that mousePressEvent or handleAIMove makes on the live
\* GameState is, when it is made, one of the moves getValidMoves returns
\* for the live GameState as it then is.
C21_AppliedMoveIsValid ==
    [][op'.name \in {"makeMove", "handleAIMove"} =>
           isValidMove(op'.move, getValidMoves(Heap, "gs").moves)]_vars

----------------------------------------------------------------------------
(* The notation of moves *)

\* C22: for every castle move getValidMoves returns, getChessNotation and
\* toString both yield "O-O" when the king moves two files towards the
\* h-file and "O-O-O" when it moves two files towards the a-file.
C22_CastleNotation ==
    op.name = "getValidMoves" =>
        \A i \in 1..Len(validMoves) :
            validMoves[i].isCastleMove =>
                LET expected ==
                        IF validMoves[i].endCol - validMoves[i].startCol = 2
                        THEN "O-O" ELSE "O-O-O"
                IN  /\ getChessNotation(validMoves[i]) = expected
                    /\ toString(validMoves[i]) = expected

----------------------------------------------------------------------------
(* The legal moves by the rules of chess, promotion to the queen only *)

\* the squares the piece on sq may go to when the safety of its king is left
\* aside, each with the kind of move: "move", "ep" or "castle"
RuleTargets(g, sq) ==
    LET board == g.board
        piece == At(board, sq)
        color == ColorOf[piece]
        kind == KindOf[piece]
        f == IF color = "w" THEN -1 ELSE 1
        free(t) == OnBoard(t[1], t[2]) /\ At(board, t) = "--"
        open(t) == OnBoard(t[1], t[2]) /\ ColorOf[At(board, t)] # color
        one == <<sq[1] + f, sq[2]>>
        two == <<sq[1] + 2 * f, sq[2]>>
        takes == {<<sq[1] + f, sq[2] + dc>> : dc \in {-1, 1}}
    IN  IF kind = "p"
        THEN {<<t, "move">> : t \in {t \in {one} : free(t)}}
             \cup {<<t, "move">> :
                      t \in {t \in {two} :
                                /\ sq[1] = (IF color = "w" THEN 6 ELSE 1)
                                /\ free(one) /\ free(t)}}
             \cup {<<t, "move">> :
                      t \in {t \in takes :
                                /\ OnBoard(t[1], t[2])
                                /\ ColorOf[At(board, t)] = Enemy(color)}}
             \cup {<<t, "ep">> :
                      t \in {t \in takes : t = g.enPassantPossible}}
        ELSE IF kind = "N"
        THEN {<<t, "move">> :
                 t \in {t \in {<<sq[1] + d[1], sq[2] + d[2]>> : d \in RefKnight}
                           : open(t)}}
        ELSE IF kind = "K"
        THEN {<<t, "move">> :
                 t \in {t \in {<<sq[1] + d[1], sq[2] + d[2]>> : d \in RefDirs}
                           : open(t)}}
             \cup {<<<<sq[1], sq[2] + 2 * side>>, "castle">> :
                      side \in {side \in {-1, 1} :
                          /\ sq = <<IF color = "w" THEN 7 ELSE 0, 4>>
                          /\ At(board, <<sq[1], IF side = 1 THEN 7 ELSE 0>>)
                                 = (IF color = "w" THEN "wR" ELSE "bR")
                          /\ CastleAllowed(g,
                                 [startRow |-> sq[1], startCol |-> sq[2],
                                  endCol |-> sq[2] + 2 * side])}}
        ELSE {<<t, "move">> :
                 t \in UNION {Ray(board, color, sq, d) :
                                 d \in {d \in RefDirs : SlidesAlong(piece, d)}}}

\* the board after the piece on sq has made the move t of RuleTargets
RuleBoardAfter(board, sq, t) ==
    LET piece == At(board, sq)
        to == t[1]
        placed == IF KindOf[piece] = "p" /\ to[1] \in {0, 7}
                  THEN (IF ColorOf[piece] = "w" THEN "wQ" ELSE "bQ")
                  ELSE piece
        moved == [board EXCEPT ![sq[1]][sq[2]] = "--",
                               ![to[1]][to[2]] = placed]
    IN  IF t[2] = "ep"
        THEN [moved EXCEPT ![sq[1]][to[2]] = "--"]
        ELSE IF t[2] = "castle"
        THEN (IF to[2] > sq[2]
              THEN [moved EXCEPT ![sq[1]][7] = "--",
                                 ![sq[1]][5] = At(board, <<sq[1], 7>>)]
              ELSE [moved EXCEPT ![sq[1]][0] = "--",
                                 ![sq[1]][3] = At(board, <<sq[1], 0>>)])
        ELSE moved

\* the squares the piece of the side to move on sq may legally go to
LegalTargets(g, sq) ==
    IF ColorOf[At(g.board, sq)] # ToMove(g) THEN {}
    ELSE {t[1] : t \in {t \in RuleTargets(g, sq) :
                           ~KingAttacked(RuleBoardAfter(g.board, sq, t),
                                         ToMove(g))}}

\* C23: getValidMoves returns every legal move: for every piece of the side
\* to move, every square it may go to by the rules (castle and en passant
\* included) with its king not attacked afterwards.
C23_Completeness ==
    op.name = "getValidMoves" =>
        \A sq \in Squares : LegalTargets(gs, sq) \subseteq Targets(validMoves, sq)

----------------------------------------------------------------------------
(* Castling rights lost by a move *)

\* the home corner of the rook of castling right n
HomeCorner(n) ==
    CASE n = "wks" -> <<7, 7>>
      [] n = "wqs" -> <<7, 0>>
      [] n = "bks" -> <<0, 7>>
      [] n = "bqs" -> <<0, 0>>

\* the castling rights move m may clear: both rights of a king that moves,
\* the right of the corner a rook of that side leaves, the right of the
\* corner on which a rook of that side is captured
RightsCleared(m) ==
    {n \in {"wks", "wqs", "bks", "bqs"} :
        LET side == IF n \in {"wks", "wqs"} THEN "w" ELSE "b"
            king == IF side = "w" THEN "wK" ELSE "bK"
            rook == IF side = "w" THEN "wR" ELSE "bR"
        IN  \/ m.pieceMoved = king
            \/ m.pieceMoved = rook /\ <<m.startRow, m.startCol>> = HomeCorner(n)
            \/ m.pieceCaptured = rook /\ <<m.endRow, m.endCol>> = HomeCorner(n)}

\* C24: makeMove clears a castling right only if the king of that side
\* moved, a rook of that side moved away from that right's home corner, or
\* a rook of that side was captured on that right's home corner; a rook
\* captured on another square costs no right.
C24_RightsClearedOnlyByRule ==
    op.name = "makeMove" =>
        RightsHeld(Back(hist).castlingRights) \ RightsHeld(gs.castlingRights)
            \subseteq RightsCleared(op.move)

----------------------------------------------------------------------------
(* getValidMoves when the king is in check *)

Attackers(board, sq, by) ==
    {a \in Squares :
        /\ ColorOf[At(board, a)] = by
        /\ LET dr == a[1] - sq[1]
               dc == a[2] - sq[2]
               kind == KindOf[At(board, a)]
           IN  \/ kind = "N" /\ <<dr, dc>> \in RefKnight
               \/ kind = "K" /\ <<dr, dc>> \in RefDirs
               \/ kind = "p" /\ dr = (IF by = "w" THEN 1 ELSE -1)
                             /\ Abs(dc) = 1
               \/ \E d \in RefDirs :
                     /\ SlidesAlong(At(board, a), d)
                     /\ FirstPiece(board, sq, d) = a}

\* the squares from sq towards a, up to and including a, on their common
\* line
RayTo(sq, a) ==
    LET sign(x) == IF x > 0 THEN 1 ELSE IF x < 0 THEN -1 ELSE 0
        dr == sign(a[1] - sq[1])
        dc == sign(a[2] - sq[2])
        n == IF Abs(a[1] - sq[1]) > Abs(a[2] - sq[2])
             THEN Abs(a[1] - sq[1]) ELSE Abs(a[2] - sq[2])
    IN  {<<sq[1] + dr * i, sq[2] + dc * i>> : i \in 1..n}

C28_SquareUnderAttack ==
    \A sq \in Squares :
        squareUnderAttack(Heap, "gs", sq[1], sq[2]).attacked
            <=> Attacked(gs.board, sq, Enemy(ToMove(gs)))

\* the squares a list of checks names
CheckSquares(checks) == {<<checks[i].row, checks[i].col>> : i \in 1..Len(checks)}

\* C29: checkForPinsAndChecks returns as checks exactly the squares of the
\* enemy pieces that attack the king of the side to move, each once, and
\* inCheck is true exactly when that list is not empty.
C29_ChecksAreAttackers ==
    LET r == checkForPinsAndChecks(gs)
        attackers == UNION {Attackers(gs.board, k, Enemy(ToMove(gs))) :
                               k \in KingSquares(gs.board, ToMove(gs))}
    IN  /\ CheckSquares(r.checks) = attackers
        /\ Len(r.checks) = Cardinality(attackers)
        /\ r.inCheck <=> r.checks # <<>>

\* C30: getValidMoves returns with the board, whiteToMove, the king
\* locations, castlingRights, enPassantPossible and the three logs as they
\* were when it was called; only inCheck, pins, checks, checkmate and
\* stalemate may differ.  The handlers that make a move first call
\* getValidMoves on the object as makeMove left it.
C30_GetValidMovesRestores ==
    [][op'.name \in {"getValidMoves", "makeMove", "handleAIMove"} =>
           SameState(IF op'.name = "getValidMoves" THEN gs
                     ELSE makeMove(gs, op'.move),
                     gs')]_vars

\* the pawns of the side to move that stand beside the pawn that has just
\* advanced two squares, and so could capture it en passant
EnPassantPawns(g) ==
    {sq \in Squares :
        /\ At(g.board, sq) = (IF g.whiteToMove THEN "wp" ELSE "bp")
        /\ g.enPassantPossible[1] = sq[1] + (IF g.whiteToMove THEN -1 ELSE 1)
        /\ Abs(g.enPassantPossible[2] - sq[2]) = 1}

\* whether taking the capturing pawn on sq and the captured pawn off their
\* rank leaves an enemy rook or queen as the first piece seen from the
\* mover's king along that rank
RankExposed(g, sq) ==
    \E k \in KingSquares(g.board, ToMove(g)) :
        /\ k[1] = sq[1]
        /\ LET cleared == [g.board EXCEPT
                              ![sq[1]][sq[2]] = "--",
                              ![sq[1]][g.enPassantPossible[2]] = "--"]
               f == FirstPiece(cleared, k,
                               <<0, IF sq[2] > k[2] THEN 1 ELSE -1>>)
           IN  /\ f # NoSquare
               /\ ColorOf[At(cleared, f)] = Enemy(ToMove(g))
               /\ KindOf[At(cleared, f)] \in {"R", "Q"}

\* whether moves holds the en-passant capture by the pawn on sq
HasEnPassant(moves, sq) ==
    \E i \in 1..Len(moves) :
        /\ moves[i].isEnpassantMove
        /\ <<moves[i].startRow, moves[i].startCol>> = sq

\* C31: getValidMoves does not return an en-passant capture that would
\* open the rank of the mover's king to an enemy rook or queen once both
\* pawns have left it; when another piece blocks first or there is no such
\* rook or queen, a capture that is legal while the mover is not in check
\* is returned.
C31_EnPassantRankRule ==
    op.name = "getValidMoves" =>
        \A sq \in EnPassantPawns(gs) :
            /\ RankExposed(gs, sq) => ~HasEnPassant(validMoves, sq)
            /\ (/\ ~RankExposed(gs, sq)
                /\ ~KingAttacked(gs.board, ToMove(gs))
                /\ gs.enPassantPossible \in LegalTargets(gs, sq))
                   => HasEnPassant(validMoves, sq)

\* the mover's king, both pawns and an enemy rook stand on one rank with
\* nothing else between them
C31_Witness ==
    /\ op.name = "getValidMoves"
    /\ \E sq \in EnPassantPawns(gs) :
           RankExposed(gs, sq) /\ ~HasEnPassant(validMoves, sq)

\* the full-width negamax value of the k-th root move, in the position the
\* search was called on
rootValue(k) == unprunedRuns[k].score

\* C32: when the root search has recorded a move, the move is a root move
\* whose full-width negamax value equals the score the root returned, and
\* no root move has a strictly higher full-width value, whatever the order
\* of the shuffle.
C32_RecordedMoveIsBest ==
    (ai.pc = "done" /\ ai.recorded.moveID # 0) =>
        \E k \in 1..Len(ai.shuffledMoves) :
            /\ ai.shuffledMoves[k] = ai.recorded
            /\ rootValue(k) = ai.score
            /\ \A n \in 1..Len(ai.shuffledMoves) : rootValue(n) <= rootValue(k)

\* the GameState objects that exist: the live one and, once handed over,
\* the copy
GameStates == IF stateCopy = NoObject THEN {gs} ELSE {gs, stateCopy}

\* whether move takes a pawn onto its last rank
ReachesLastRank(move) ==
    \/ move.pieceMoved = "wp" /\ move.endRow = 0
    \/ move.pieceMoved = "bp" /\ move.endRow = 7

\* C33: promotion is always to a queen: after makeMove of a pawn onto its
\* last rank the destination holds a queen of the mover's colour, undoMove
\* of that move puts the pawn back on its start square and the captured
\* piece on the destination, and no pawn ever stands on row 0 or row 7 of
\* a GameState object.
C33_PromotionToQueen ==
    /\ \A g \in GameStates : \A c \in 0..7 :
           KindOf[g.board[0][c]] # "p" /\ KindOf[g.board[7][c]] # "p"
    /\ (op.name = "makeMove" /\ ReachesLastRank(op.move)) =>
           gs.board[op.move.endRow][op.move.endCol] =
               (IF ColorOf[op.move.pieceMoved] = "w" THEN "wQ" ELSE "bQ")
    /\ (op.name = "undoMove" /\ ReachesLastRank(op.move)) =>
           /\ gs.board[op.move.startRow][op.move.startCol] = op.move.pieceMoved
           /\ gs.board[op.move.endRow][op.move.endCol] = op.move.pieceCaptured

\* the value the call of findMoveNegaMaxAlphaBeta on top of the stack
\* returns once its loop has ended
nodeValue ==
    IF Top.depth = 0 THEN Top.turnMultiplier * scoreBoard(stateCopy)
    ELSE Top.maxScore

\* C34: in the search a node whose side to move has no move is valued,
\* from that side's perspective, as -CHECKMATE when the side is in check
\* and as STALEMATE (0) when it is not, at depth 0 and at depth > 0 alike.
C34_NoMoveNodeValue ==
    (ai.pc = "search" /\ Top.validMoves = <<>>) =>
        nodeValue = (IF stateCopy.inCheck THEN -CHECKMATE ELSE STALEMATE)


-----------------------------------------------------------------------------
(* The ChessBoard widget in human-vs-AI play: its handlers run on the GUI  *)
(* thread, ChessAI::findBestMove on the AI thread, and the two exchange    *)
(* the queued signals findAIMove and findBestMoveFinished.  The search     *)
(* itself is the subject of SpecAI; here a run of findBestMove is its      *)
(* result, a move of the list it was given.                                *)

\* Plies up to which the human player moves.
MaxUIPly == 2

\* The moves of a list (counted from its front) a click or a search picks.
MaxChoice == 2

\* Single-shot timers and queued signals in flight at one time.
MaxPending == 2

\* ChessBoard::ChessBoard: the flags, no timer running, no signal queued;
\* searched is the position the search of the move last handled was given
NewChessBoard ==
    [humanVsAi |-> FALSE, humanPlaysWhite |-> TRUE, aiThinking |-> FALSE,
     gameOver |-> FALSE, animating |-> FALSE, timers |-> 0,
     findAIMove |-> <<>>, findBestMoveFinished |-> <<>>,
     searched |-> Position(NewGameState("gs"))]

InitUI ==
    \E r \in {getValidMoves([gs |-> NewGameState("gs"),
                             stateCopy |-> NoObject], "gs")} :
        /\ gs = r.h.gs
        /\ validMoves = r.moves
        /\ stateCopy = NoObject
        /\ ai = Idle
        /\ op = Op("new", DefaultMove, 0)
        /\ hist = <<>>
        /\ chessBoard = NewChessBoard

\* the condition "AI's turn" of setHumanVsAI and mousePressEvent
aiTurn(g, board) ==
    /\ board.humanVsAi
    /\ \/ g.whiteToMove /\ ~board.humanPlaysWhite
       \/ ~g.whiteToMove /\ board.humanPlaysWhite

\* timers and signals in flight
pending == chessBoard.timers + Len(chessBoard.findAIMove)
               + Len(chessBoard.findBestMoveFinished)

\* QTimer::singleShot(500, ...) if start, on the widget board
singleShot(board, start) ==
    IF start THEN [board EXCEPT !.timers = @ + 1] ELSE board

\* ChessBoard::setHumanVsAI(true, humanWhite), called once
SetHumanVsAI(humanWhite) ==
    /\ ~chessBoard.humanVsAi
    /\ pending < MaxPending
    /\ \E board \in {[chessBoard EXCEPT !.humanVsAi = TRUE,
                                        !.humanPlaysWhite = humanWhite]} :
           chessBoard' = singleShot(board,
                             /\ aiTurn(gs, board)
                             /\ ~board.aiThinking
                             /\ ~board.gameOver)
    /\ op' = Op("setHumanVsAI", DefaultMove, 0)
    /\ UNCHANGED <<gs, validMoves, stateCopy, ai, hist>>

\* ChessBoard::mousePressEvent on the second click of the squares of
\* validMoves[i]: the first move of validMoves with these squares is made,
\* validMoves and gameOver are recomputed, the animation starts and, on the
\* AI's turn, a timer is started
MousePressEvent(i) ==
    /\ ~chessBoard.gameOver
    /\ ~chessBoard.aiThinking
    /\ ~aiTurn(gs, chessBoard)
    /\ i <= MaxChoice
    /\ Len(gs.moveLog) < MaxUIPly
    /\ pending < MaxPending
    /\ \E validMove \in {appliedForAIMove(validMoves[i], validMoves)} :
           /\ \E r \in {getValidMoves(
                           [Heap EXCEPT !.gs = makeMove(gs, validMove)],
                           "gs")} :
                  /\ gs' = r.h.gs
                  /\ validMoves' = r.moves
                  /\ \E over \in {r.h.gs.checkmate \/ r.h.gs.stalemate} :
                         chessBoard' =
                             singleShot(
                                 [chessBoard EXCEPT !.gameOver = over,
                                                    !.animating = TRUE],
                                 aiTurn(r.h.gs, chessBoard) /\ ~over)
           /\ op' = Op("mousePressEvent", validMove, 0)
    /\ UNCHANGED <<stateCopy, ai, hist>>

\* the lambda of QTimer::singleShot: unless the game is over or the AI is
\* thinking, aiThinking = true; stateCopy = new GameState(*gs); emit
\* findAIMove(stateCopy, validMoves)
SingleShot ==
    /\ chessBoard.timers > 0
    /\ IF ~chessBoard.gameOver /\ ~chessBoard.aiThinking
       THEN /\ stateCopy' = CopyGameState(gs)
            /\ chessBoard' =
                   [chessBoard EXCEPT
                       !.timers = @ - 1,
                       !.aiThinking = TRUE,
                       !.findAIMove =
                           Append(@, [gs |-> CopyGameState(gs),
                                      validMoves |-> validMoves])]
       ELSE /\ chessBoard' = [chessBoard EXCEPT !.timers = @ - 1]
            /\ UNCHANGED stateCopy
    /\ op' = Op("singleShot", DefaultMove, 0)
    /\ UNCHANGED <<gs, validMoves, ai, hist>>

\* ChessAI::findBestMove(gs, validMoves) on the AI thread for the first
\* queued findAIMove: an empty list returns without a signal, otherwise
\* findBestMoveFinished carries a move of the list (its i-th)
FindBestMoveSlot(i) ==
    /\ chessBoard.findAIMove # <<>>
    /\ \E call \in {Head(chessBoard.findAIMove)} :
           IF call.validMoves = <<>>
           THEN /\ i = 1
                /\ chessBoard' = [chessBoard EXCEPT !.findAIMove = Tail(@)]
                /\ op' = Op("findBestMove", DefaultMove, 0)
           ELSE /\ i <= Len(call.validMoves)
                /\ chessBoard' =
                       [chessBoard EXCEPT
                           !.findAIMove = Tail(@),
                           !.findBestMoveFinished =
                               Append(@, [move |-> call.validMoves[i],
                                          searched |-> Position(call.gs)])]
                /\ op' = Op("findBestMove", call.validMoves[i], 0)
    /\ UNCHANGED <<gs, validMoves, stateCopy, ai, hist>>

\* ChessBoard::handleAIMove(move) for the first queued findBestMoveFinished:
\* while aiThinking and the game is not over the move is looked up in
\* validMoves, the move found (or the first of validMoves) is made, the
\* animation starts, validMoves and gameOver are recomputed and aiThinking
\* = false; otherwise the move is dropped
HandleAIMoveSlot ==
    /\ chessBoard.findBestMoveFinished # <<>>
    /\ \E result \in {Head(chessBoard.findBestMoveFinished)} :
       \E applied \in {appliedForAIMove(result.move, validMoves)} :
           IF chessBoard.aiThinking /\ ~chessBoard.gameOver
           THEN IF applied # DefaultMove
                THEN /\ op' = Op("handleAIMove", applied, 0)
                     /\ \E r \in {getValidMoves(
                                [Heap EXCEPT !.gs = makeMove(gs, applied)],
                                "gs")} :
                            /\ gs' = r.h.gs
                            /\ validMoves' = r.moves
                            /\ chessBoard' =
                                   [chessBoard EXCEPT
                                       !.findBestMoveFinished = Tail(@),
                                       !.searched = result.searched,
                                       !.animating = TRUE,
                                       !.gameOver = \/ r.h.gs.checkmate
                                                    \/ r.h.gs.stalemate,
                                       !.aiThinking = FALSE]
                ELSE /\ chessBoard' =
                            [chessBoard EXCEPT
                                !.findBestMoveFinished = Tail(@),
                                !.aiThinking = FALSE]
                     /\ op' = Op("handleAIMoveNone", DefaultMove, 0)
                     /\ UNCHANGED <<gs, validMoves>>
           ELSE /\ chessBoard' =
                       [chessBoard EXCEPT !.findBestMoveFinished = Tail(@)]
                /\ op' = Op("handleAIMoveDropped", result.move, 0)
                /\ UNCHANGED <<gs, validMoves>>
    /\ UNCHANGED <<stateCopy, ai, hist>>

\* the tick of animationTimer that ends the animation in
\* ChessBoard::updateAnimation: validMoves and gameOver are recomputed
UpdateAnimation ==
    /\ chessBoard.animating
    /\ op' = Op("updateAnimation", DefaultMove, 0)
    /\ \E r \in {getValidMoves(Heap, "gs")} :
           /\ gs' = r.h.gs
           /\ validMoves' = r.moves
           /\ chessBoard' =
                  [chessBoard EXCEPT
                      !.animating = FALSE,
                      !.gameOver = r.h.gs.checkmate \/ r.h.gs.stalemate]
    /\ UNCHANGED <<stateCopy, ai, hist>>

\* ChessBoard::keyPressEvent for Key_Z: gs->undoMove(), once more in
\* human-vs-AI mode; gameOver = false; aiThinking = false; validMoves =
\* gs->getValidMoves()
KeyPressZ ==
    /\ \E undone \in {IF chessBoard.humanVsAi
                      THEN undoMove(undoMove(gs))
                      ELSE undoMove(gs)} :
       \E r \in {getValidMoves([Heap EXCEPT !.gs = undone], "gs")} :
           /\ gs' = r.h.gs
           /\ validMoves' = r.moves
    /\ chessBoard' = [chessBoard EXCEPT !.gameOver = FALSE,
                                        !.aiThinking = FALSE]
    /\ op' = Op("keyPressZ", DefaultMove, 0)
    /\ UNCHANGED <<stateCopy, ai, hist>>

\* ChessBoard::keyPressEvent for Key_R, that is ChessBoard::resetGame:
\* aiThinking = false; gs = new GameState(); validMoves =
\* gs->getValidMoves(); gameOver = false; the animation stops; a timer is
\* started if the AI plays White
KeyPressR ==
    /\ pending < MaxPending
    /\ \E r \in {getValidMoves(
                    [Heap EXCEPT !.gs = NewGameState("gs")], "gs")} :
           /\ gs' = r.h.gs
           /\ validMoves' = r.moves
           /\ chessBoard' =
                  singleShot([chessBoard EXCEPT !.aiThinking = FALSE,
                                                !.gameOver = FALSE,
                                                !.animating = FALSE],
                             /\ chessBoard.humanVsAi
                             /\ ~chessBoard.humanPlaysWhite
                             /\ r.h.gs.whiteToMove)
    /\ op' = Op("resetGame", DefaultMove, 0)
    /\ UNCHANGED <<stateCopy, ai, hist>>

NextUI ==
    \/ \E humanWhite \in BOOLEAN : SetHumanVsAI(humanWhite)
    \/ \E i \in 1..Len(validMoves) : MousePressEvent(i)
    \/ SingleShot
    \/ \E i \in 1..MaxChoice : FindBestMoveSlot(i)
    \/ HandleAIMoveSlot
    \/ UpdateAnimation
    \/ KeyPressZ
    \/ KeyPressR

SpecUI == InitUI /\ [][NextUI]_vars

\* C35: a move handleAIMove applies was computed by a search whose input
\* position is the live position the move is applied to; the result of a
\* search started before a later undo or reset is never applied
C35_AppliedMoveIsFresh ==
    [][op'.name = "handleAIMove" => chessBoard'.searched = Position(gs)]_vars


\* SpecUI with the scheduling of Qt: a started timer fires, the AI thread
\* runs a queued findAIMove, the GUI thread takes a queued
\* findBestMoveFinished off its queue (the steps of HandleAIMoveSlot, which
\* is enabled whenever the queue is not empty) and the animation ends (the
\* steps of UpdateAnimation); the user owes no input
SpecUIFair ==
    /\ SpecUI
    /\ WF_vars(SingleShot)
    /\ WF_vars(\E i \in 1..MaxChoice : FindBestMoveSlot(i))
    /\ WF_chessBoard(/\ chessBoard.findBestMoveFinished # <<>>
               /\ \E aiThinking, gameOver, animating \in BOOLEAN :
                  \E searched \in
                         {chessBoard.searched,
                          Head(chessBoard.findBestMoveFinished).searched} :
                      chessBoard' =
                          [chessBoard EXCEPT
                              !.findBestMoveFinished = Tail(@),
                              !.aiThinking = aiThinking,
                              !.gameOver = gameOver,
                              !.animating = animating,
                              !.searched = searched])
    /\ WF_chessBoard(/\ chessBoard.animating
               /\ \E gameOver \in BOOLEAN :
                      chessBoard' = [chessBoard EXCEPT !.animating = FALSE,
                                                       !.gameOver = gameOver])

\* a step of the user: a click that moves, Z, R or a change of mode
userInput ==
    op'.name \in {"setHumanVsAI", "mousePressEvent", "keyPressZ", "resetGame"}

\* C36: in human-vs-AI mode, when the user gives no further input, it is
\* not for ever the AI's turn in a game that is not over: the AI's move is
\* eventually applied, also after Z has undone moves
C36_AIEventuallyMoves ==
    <>[][~userInput]_vars
        => []<>~(/\ aiTurn(gs, chessBoard)
                 /\ ~chessBoard.gameOver
                 /\ ~(gs.checkmate \/ gs.stalemate))


\* C37: in every position reached by moves getValidMoves returned the board
\* holds exactly one white king and one black king, and no move returned by
\* getValidMoves captures a king
C37_OneKingEach ==
    /\ Cardinality(KingSquares(gs.board, "w")) = 1
    /\ Cardinality(KingSquares(gs.board, "b")) = 1
    /\ op.name = "getValidMoves"
           => \A i \in 1..Len(validMoves) :
                  KindOf[validMoves[i].pieceCaptured] # "K"


\* C38: from construction on and after every makeMove, undoMove and
\* getValidMoves, castlingRightsLog and enPassantPossibleLog are not empty
\* and their last entries are the current castlingRights and
\* enPassantPossible
C38_LogsEndWithCurrent ==
    \A g \in GameStates :
        /\ g.castlingRightsLog # <<>>
        /\ g.enPassantPossibleLog # <<>>
        /\ Back(g.castlingRightsLog) = g.castlingRights
        /\ Back(g.enPassantPossibleLog) = g.enPassantPossible

\* undoMove has taken back a move of the white king that had cost White
\* both rights, with earlier moves still in moveLog
C38_Witness ==
    /\ op.name = "undoMove"
    /\ op.move.pieceMoved = "wK"
    /\ gs.moveLog # <<>>
    /\ {"wks", "wqs"} \subseteq RightsHeld(Back(gs.castlingRightsLog))
    /\ Len(gs.castlingRightsLog) = Len(gs.moveLog) + 1


\* the home square of the king of castling right n
KingHome(n) == IF n \in {"wks", "wqs"} THEN <<7, 4>> ELSE <<0, 4>>

\* C39: in every position reached by moves getValidMoves returned, each
\* castling right that is set has its side's king on the home square and
\* its side's rook on the home corner of the right, so that a castle move
\* getValidMoves returns relocates a rook of the mover
C39_RightsImplyHomeSquares ==
    \A g \in GameStates :
        \A n \in RightsHeld(g.castlingRights) :
            LET side == IF n \in {"wks", "wqs"} THEN "w" ELSE "b"
            IN  /\ At(g.board, KingHome(n)) = (IF side = "w" THEN "wK" ELSE "bK")
                /\ At(g.board, HomeCorner(n)) = (IF side = "w" THEN "wR" ELSE "bR")

====
